---------------------------- MODULE Spec2Model ----------------------------
(***************************************************************************)
(* Incremental kline indicator engines of flowsurface                      *)
(* (src/chart/indicator/kline/{sma,ema,bollinger,rsi,cumulative_delta}.rs) *)
(* as one state machine.  One engine kind is selected at construction;     *)
(* the source (PlotData) is mutated by the environment and the engine is   *)
(* driven by rebuild_from_source, on_insert_klines and on_insert_trades.   *)
(*                                                                         *)
(* Numbers.  The engines mix f32 and f64.  A float is modelled as an       *)
(* integer count of units of 2^-FracBits that has at most p significant    *)
(* bits (p = F32_MANTISSA for f32, F64_MANTISSA for f64); every arithmetic *)
(* operation computes the exact result and rounds it to the nearest such   *)
(* number, ties to even, as IEEE-754 does.  The mantissa widths (24 and 53 *)
(* in the build) and the periods (50, 20, 20, 14 in the build) are scaled  *)
(* down so that the state space is finite and small.                       *)
(***************************************************************************)
EXTENDS Integers, Sequences, FiniteSets, TLC

(***************************************************************************)
(* Bounds of the model                                                     *)
(***************************************************************************)
\* fractional bits of the number grid: One = 2^FracBits units
FracBits == 8
\* significant bits kept by an f32 operation (24 in the build)
F32_MANTISSA == 5
\* significant bits kept by an f64 operation (53 in the build)
F64_MANTISSA == 16
\* SMA_PERIOD, sma.rs:20, is 50 in the build
SMA_PERIOD == 3
\* EMA_PERIOD, ema.rs:21, is 20 in the build
EMA_PERIOD == 3
\* BB_PERIOD, bollinger.rs:20, is 20 in the build
BB_PERIOD == 3
\* RSI_PERIOD, rsi.rs:20, is 14 in the build
RSI_PERIOD == 2
\* candles a Cumulative Delta source holds before MaxAfterSeed more (it has no period)
CD_SPAN == 2
\* most candles a source holds beyond the engine's period
MaxAfterSeed == 1
\* largest key (timestamp) of a time-keyed source or of a delivered kline
MaxKey == 3
\* largest number of klines in one on_insert_klines batch
MaxBatch == 1
\* largest value of the EMA engine's history_len counter
MaxHist == 5
\* largest rounding error, in units of the last place, tried on the Bollinger rolling sums
MaxUlp == 2
\* ms the clock advances in one step, and the number of such steps
TickMs == 100
MaxTicks == 4
\* longest source of the runs in which the clock advances
TimedMaxLen == 2

(***************************************************************************)
(* Floating point                                                          *)
(***************************************************************************)
RECURSIVE Pow2(_)
Pow2(n) == IF n = 0 THEN 1 ELSE 2 * Pow2(n - 1)

One == Pow2(FracBits)

Abs(x) == IF x < 0 THEN -x ELSE x

\* the least magnitude an f32 (an f64) can no longer hold to the unit: 2^mantissa
F32_LIMIT == Pow2(F32_MANTISSA)
F64_LIMIT == Pow2(F64_MANTISSA)

\* the gap between neighbouring floats at magnitude q >= 0, for a mantissa limit
RECURSIVE Spacing(_, _)
Spacing(q, limit) == IF q < limit THEN 1 ELSE 2 * Spacing(q \div 2, limit)

\* n/d (n >= 0, d > 0) rounded to the nearest float, ties to even
RoundPos(n, d, limit) ==
    LET s  == Spacing(n \div d, limit)
        lo == (n \div (d * s)) * s
        r2 == 2 * (n - lo * d)
    IN  IF r2 < s * d THEN lo
        ELSE IF r2 > s * d THEN lo + s
        ELSE IF (lo \div s) % 2 = 0 THEN lo ELSE lo + s

\* n/d (d > 0) rounded to the nearest float
Round(n, d, limit) == IF n < 0 THEN -RoundPos(-n, d, limit) ELSE RoundPos(n, d, limit)

RECURSIVE Isqrt(_)
Isqrt(n) == IF n < 2 THEN n
            ELSE LET s == 2 * Isqrt(n \div 4)
                 IN  IF (s + 1) * (s + 1) <= n THEN s + 1 ELSE s

\* sqrt(n) (n >= 0) rounded to the nearest float
RoundSqrt(n, limit) ==
    LET r  == Isqrt(n)
        s  == Spacing(r, limit)
        lo == (r \div s) * s
        m2 == 2 * lo + s
    IN  IF 4 * n < m2 * m2 THEN lo
        ELSE IF 4 * n > m2 * m2 THEN lo + s
        ELSE IF (lo \div s) % 2 = 0 THEN lo ELSE lo + s

\* `as f32`
F32(x) == Round(x, 1, F32_LIMIT)
\* f32 arithmetic
AddF32(a, b) == Round(a + b, 1, F32_LIMIT)
SubF32(a, b) == Round(a - b, 1, F32_LIMIT)
MulF32(a, b) == Round(a * b, One, F32_LIMIT)
DivF32(a, b) == Round(a * One, b, F32_LIMIT)
\* f64 arithmetic (`as f64` of an f32 is exact)
AddF64(a, b) == Round(a + b, 1, F64_LIMIT)
SubF64(a, b) == Round(a - b, 1, F64_LIMIT)
MulF64(a, b) == Round(a * b, One, F64_LIMIT)
DivF64(a, b) == Round(a * One, b, F64_LIMIT)
SqrtF64(a)   == RoundSqrt(a * One, F64_LIMIT)

\* an integer literal n as a float (n.0, or `N as f32`, `N as f64`)
Lit(n) == n * One

(***************************************************************************)
(* Option<T>, BTreeMap<u64, T>                                             *)
(***************************************************************************)
None == << >>
Some(x) == << x >>
IsSome(o) == o # None
Unwrap(o) == o[1]
UnwrapOr(o, d) == IF o = None THEN d ELSE o[1]

EmptyMap == [k \in {} |-> 0]
MapInsert(m, k, v) == [x \in (DOMAIN m) \cup {k} |-> IF x = k THEN v ELSE m[x]]
MapGet(m, k) == IF k \in DOMAIN m THEN Some(m[k]) ELSE None
SetMax(S) == CHOOSE x \in S : \A y \in S : y <= x
\* the greatest key below k, if any: m.range(..k).next_back()
KeyBefore(keys, k) ==
    LET below == {x \in keys : x < k}
    IN  IF below = {} THEN None ELSE Some(SetMax(below))


\* left fold of a handler's loop body over a slice
RECURSIVE FoldSeq(_, _, _)
FoldSeq(Op(_, _), s, seq) ==
    IF seq = << >> THEN s ELSE FoldSeq(Op, Op(s, Head(seq)), Tail(seq))

(***************************************************************************)
(* Inputs: klines and the source                                           *)
(***************************************************************************)
\* close and (buy, sell) volume of the candles the environment produces
Shapes ==
    { [close |-> Lit(11), buy |-> Lit(48), sell |-> Lit(0)],
      [close |-> Lit(13), buy |-> Lit(0),  sell |-> Lit(13)] }

Keys == 0..MaxKey

\* exchange::Kline: time, close, volume = (buy, sell)
Kline(t, sh) == [time |-> t, close |-> sh.close, buy |-> sh.buy, sell |-> sh.sell]

RECURSIVE SeqsUpTo(_, _)
SeqsUpTo(S, n) ==
    IF n = 0 THEN { << >> }
    ELSE LET shorter == SeqsUpTo(S, n - 1)
         IN  shorter \cup { Append(q, x) : q \in {r \in shorter : Len(r) = n - 1}, x \in S }

\* the slices on_insert_klines is called with: candles of the chart's source, in
\* any order and any number of times
Batches(src) == SeqsUpTo({ src.dps[i] : i \in 1..Len(src.dps) }, MaxBatch) \ { << >> }

\* PlotData<KlineDataPoint>: TimeBased (key = kline.time) or TickBased (key = index)
Bases == {"TimeBased", "TickBased"}
EmptySource(b) == [basis |-> b, dps |-> << >>]
SourceKey(src, i) == IF src.basis = "TimeBased" THEN src.dps[i].time ELSE i - 1
SourceKeys(src) == { SourceKey(src, i) : i \in 1..Len(src.dps) }
\* dp.kline.close.to_f32()
Close(dp) == dp.close
\* dp.kline.volume.0 - dp.kline.volume.1, an f32 subtraction
Delta(dp) == SubF32(dp.buy, dp.sell)

(***************************************************************************)
(* SMA (sma.rs)                                                            *)
(***************************************************************************)
SMA_new ==
    [data |-> EmptyMap, history_closes |-> << >>, rolling_sum |-> 0, last_time |-> None]

\* update_rolling that never takes the close leaving the window out of the sum
SMA_update_rolling_no_exit(s, new_val, is_new) ==
    IF is_new
    THEN [s EXCEPT !.history_closes = Append(s.history_closes, new_val),
                   !.rolling_sum = AddF64(s.rolling_sum, new_val)]
    ELSE IF s.history_closes # << >>
         THEN LET n == Len(s.history_closes)
              IN  [s EXCEPT !.history_closes = [s.history_closes EXCEPT ![n] = new_val],
                            !.rolling_sum =
                                AddF64(SubF64(s.rolling_sum, s.history_closes[n]), new_val)]
         ELSE [s EXCEPT !.history_closes = << new_val >>,
                        !.rolling_sum = AddF64(s.rolling_sum, new_val)]

\* update_rolling: the accumulator after the call
SMA_update_rolling(s, new_val, is_new) ==
    IF is_new
    THEN LET h == Append(s.history_closes, new_val)
         IN  IF Len(h) > SMA_PERIOD
             THEN [s EXCEPT !.history_closes = h,
                            !.rolling_sum =
                                AddF64(SubF64(s.rolling_sum, h[Len(h) - SMA_PERIOD]), new_val)]
             ELSE [s EXCEPT !.history_closes = h,
                            !.rolling_sum = AddF64(s.rolling_sum, new_val)]
    ELSE IF s.history_closes # << >>
         THEN LET n == Len(s.history_closes)
              IN  [s EXCEPT !.history_closes = [s.history_closes EXCEPT ![n] = new_val],
                            !.rolling_sum =
                                AddF64(SubF64(s.rolling_sum, s.history_closes[n]), new_val)]
         ELSE [s EXCEPT !.history_closes = << new_val >>,
                        !.rolling_sum = AddF64(s.rolling_sum, new_val)]

\* update_rolling: the value it returns, read from the accumulator it leaves
SMA_rolling_result(s) ==
    IF Len(s.history_closes) >= SMA_PERIOD
    THEN Some(F32(DivF64(s.rolling_sum, Lit(SMA_PERIOD))))
    ELSE None

\* last_time = key; update_rolling(close, is_new); insert the value if there is one
SMA_ingest(s, key, close, is_new) ==
    LET u == SMA_update_rolling([s EXCEPT !.last_time = Some(key)], close, is_new)
        r == SMA_rolling_result(u)
    IN  IF IsSome(r) THEN [u EXCEPT !.data = MapInsert(u.data, key, Unwrap(r))] ELSE u

RECURSIVE SMA_rebuild_loop(_, _, _)
SMA_rebuild_loop(s, src, i) ==
    IF i > Len(src.dps) THEN s
    ELSE SMA_rebuild_loop(SMA_ingest(s, SourceKey(src, i), Close(src.dps[i]), TRUE), src, i + 1)

SMA_rebuild_from_source(src) == SMA_rebuild_loop(SMA_new, src, 1)

\* the clears at the head of rebuild_from_source
SMA_reset(s) ==
    [s EXCEPT !.data = EmptyMap, !.history_closes = << >>, !.rolling_sum = 0,
              !.last_time = None]

\* rebuild_from_source on an engine in state s
SMA_rebuild_from(s, src) == SMA_rebuild_loop(SMA_reset(s), src, 1)

SMA_insert_kline(s, kline) ==
    IF IsSome(s.last_time) /\ kline.time <= Unwrap(s.last_time)
    THEN s
    ELSE SMA_ingest(s, kline.time, kline.close, TRUE)

SMA_on_insert_klines(s, klines) == FoldSeq(SMA_insert_kline, s, klines)

\* on_insert_trades without the return for a key below last_time
SMA_on_insert_trades_no_return(s, src) ==
    IF src.dps = << >> THEN s
    ELSE LET n      == Len(src.dps)
             key    == SourceKey(src, n)
             is_new == IF IsSome(s.last_time) THEN key > Unwrap(s.last_time) ELSE TRUE
         IN  SMA_ingest(s, key, Close(src.dps[n]), is_new)

SMA_on_insert_trades(s, src) ==
    IF src.dps = << >> THEN s
    ELSE LET n      == Len(src.dps)
             key    == SourceKey(src, n)
             is_new == IF IsSome(s.last_time) THEN key > Unwrap(s.last_time) ELSE TRUE
         IN  IF key < UnwrapOr(s.last_time, 0) THEN s
             ELSE SMA_ingest(s, key, Close(src.dps[n]), is_new)

\* on_ticksize_change handled as one more revision of the open candle
SMA_on_ticksize_change_incremental(s, src) == SMA_on_insert_trades(s, src)

\* on_ticksize_change, on_basis_change: self.rebuild_from_source(source)
SMA_on_ticksize_change(s, src) == SMA_rebuild_from(s, src)
SMA_on_basis_change(s, src) == SMA_rebuild_from(s, src)


(***************************************************************************)
(* EMA (ema.rs)                                                            *)
(***************************************************************************)
EMA_multiplier == DivF32(Lit(2), AddF32(Lit(EMA_PERIOD), Lit(1)))

EMA_new == [data |-> EmptyMap, last_ema |-> None, history_len |-> 0]

\* calculate_next_ema adding the weighted step onto the price
EMA_calculate_next_ema_onto_price(price, prev_ema) ==
    AddF32(MulF32(SubF32(price, prev_ema), EMA_multiplier), price)

EMA_calculate_next_ema(price, prev_ema) ==
    AddF32(MulF32(SubF32(price, prev_ema), EMA_multiplier), prev_ema)

\* last_ema = Some(v); data.insert(key, v)
EMA_store(s, key, v) ==
    [s EXCEPT !.last_ema = Some(v), !.data = MapInsert(s.data, key, v)]

\* the rebuild loop storing the seed entry without setting last_ema
EMA_rebuild_step_unseeded(l, key, close) ==
    LET e == [l.eng EXCEPT !.history_len = @ + 1]
    IN  IF l.count < EMA_PERIOD
        THEN LET sum == AddF32(l.initial_sum, close)
                 cnt == l.count + 1
             IN  IF cnt = EMA_PERIOD
                 THEN [eng |-> [e EXCEPT !.data =
                                    MapInsert(@, key, DivF32(sum, Lit(EMA_PERIOD)))],
                       initial_sum |-> sum, count |-> cnt]
                 ELSE [eng |-> e, initial_sum |-> sum, count |-> cnt]
        ELSE [l EXCEPT !.eng =
                  EMA_store(e, key, EMA_calculate_next_ema(close, UnwrapOr(e.last_ema, 0)))]

\* one iteration of the rebuild loop; l holds the engine and the locals
EMA_rebuild_step(l, key, close) ==
    LET e == [l.eng EXCEPT !.history_len = @ + 1]
    IN  IF l.count < EMA_PERIOD
        THEN LET sum == AddF32(l.initial_sum, close)
                 cnt == l.count + 1
             IN  IF cnt = EMA_PERIOD
                 THEN [eng |-> EMA_store(e, key, DivF32(sum, Lit(EMA_PERIOD))),
                       initial_sum |-> sum, count |-> cnt]
                 ELSE [eng |-> e, initial_sum |-> sum, count |-> cnt]
        ELSE [l EXCEPT !.eng =
                  EMA_store(e, key, EMA_calculate_next_ema(close, Unwrap(e.last_ema)))]

RECURSIVE EMA_rebuild_loop(_, _, _)
EMA_rebuild_loop(l, src, i) ==
    IF i > Len(src.dps) THEN l
    ELSE EMA_rebuild_loop(EMA_rebuild_step(l, SourceKey(src, i), Close(src.dps[i])), src, i + 1)

EMA_rebuild_from_source(src) ==
    EMA_rebuild_loop([eng |-> EMA_new, initial_sum |-> 0, count |-> 0], src, 1).eng

\* the clears at the head of rebuild_from_source
EMA_reset(s) == [s EXCEPT !.data = EmptyMap, !.last_ema = None, !.history_len = 0]

\* rebuild_from_source on an engine in state s
EMA_rebuild_from(s, src) ==
    EMA_rebuild_loop([eng |-> EMA_reset(s), initial_sum |-> 0, count |-> 0], src, 1).eng

EMA_insert_kline(s, kline) ==
    LET e == [s EXCEPT !.history_len = @ + 1]
    IN  IF e.history_len <= EMA_PERIOD THEN e
        ELSE IF IsSome(e.last_ema)
             THEN EMA_store(e, kline.time, EMA_calculate_next_ema(kline.close, Unwrap(e.last_ema)))
             ELSE e

EMA_on_insert_klines(s, klines) == FoldSeq(EMA_insert_kline, s, klines)

\* EMA_revise taking the running last_ema as its base
EMA_revise_from_last_ema(s, key, close, prev_ema) ==
    IF IsSome(prev_ema) /\ IsSome(s.last_ema)
    THEN EMA_store(s, key, EMA_calculate_next_ema(close, Unwrap(s.last_ema)))
    ELSE s

\* EMA_revise taking the entry already stored at key as its base
EMA_revise_from_own_entry(s, key, close, prev_ema) ==
    IF IsSome(MapGet(s.data, key))
    THEN EMA_store(s, key, EMA_calculate_next_ema(close, Unwrap(MapGet(s.data, key))))
    ELSE IF IsSome(prev_ema)
         THEN EMA_store(s, key, EMA_calculate_next_ema(close, Unwrap(prev_ema)))
         ELSE s

\* if let Some(prev) = prev_ema { next = ...; last_ema = Some(next); data.insert(key, next) }
EMA_revise(s, key, close, prev_ema) ==
    IF IsSome(prev_ema)
    THEN EMA_store(s, key, EMA_calculate_next_ema(close, Unwrap(prev_ema)))
    ELSE s

\* the TickBased "new bars added" loop, i being the 0-based index
RECURSIVE EMA_new_bars_loop(_, _, _)
EMA_new_bars_loop(s, src, i) ==
    IF i >= Len(src.dps) THEN s
    ELSE LET e        == [s EXCEPT !.history_len = @ + 1]
             prev_ema == IF i > 0 THEN MapGet(e.data, i - 1) ELSE None
         IN  EMA_new_bars_loop(EMA_revise(e, i, Close(src.dps[i + 1]), prev_ema), src, i + 1)

EMA_on_insert_trades(s, old_dp_len, src) ==
    IF src.basis = "TimeBased"
    THEN IF src.dps = << >> THEN s
         ELSE LET n         == Len(src.dps)
                  time      == src.dps[n].time
                  prev_time == KeyBefore(SourceKeys(src), time)
                  prev_ema  == IF IsSome(prev_time) THEN MapGet(s.data, Unwrap(prev_time))
                               ELSE None
              IN  EMA_revise(s, time, Close(src.dps[n]), prev_ema)
    ELSE LET current_len == Len(src.dps)
         IN  IF current_len > old_dp_len
             THEN EMA_new_bars_loop(s, src, old_dp_len)
             ELSE IF src.dps # << >>
                  THEN LET last_idx == current_len - 1
                           prev_ema == IF last_idx > 0 THEN MapGet(s.data, last_idx - 1)
                                       ELSE None
                       IN  EMA_revise(s, last_idx, Close(src.dps[current_len]), prev_ema)
                  ELSE s

\* on_ticksize_change, on_basis_change: self.rebuild_from_source(source)
EMA_on_ticksize_change(s, src) == EMA_rebuild_from(s, src)
EMA_on_basis_change(s, src) == EMA_rebuild_from(s, src)

(***************************************************************************)
(* Bollinger Bands (bollinger.rs)                                          *)
(***************************************************************************)
BB_STD_DEV == Lit(2)
BB_multiplier == DivF32(Lit(2), AddF32(Lit(BB_PERIOD), Lit(1)))

BB_new ==
    [data |-> EmptyMap, history_closes |-> << >>, last_ema |-> None,
     rolling_sum |-> 0, rolling_sum_sq |-> 0, last_time |-> None]

BB_calculate_next_ema(price, prev_ema) ==
    AddF32(MulF32(SubF32(price, prev_ema), BB_multiplier), prev_ema)

\* update_rolling_stats whose revision adds the new close without taking the old
\* one out of the rolling sums
BB_update_rolling_stats_no_exit(s, new_val, is_new) ==
    LET val_sq == MulF64(new_val, new_val)
    IN  IF is_new
        THEN LET h == Append(s.history_closes, new_val)
             IN  IF Len(h) > BB_PERIOD
                 THEN LET removed == h[Len(h) - BB_PERIOD]
                      IN  [s EXCEPT !.history_closes = h,
                                    !.rolling_sum = AddF64(SubF64(s.rolling_sum, removed), new_val),
                                    !.rolling_sum_sq =
                                        AddF64(SubF64(s.rolling_sum_sq, MulF64(removed, removed)),
                                               val_sq)]
                 ELSE [s EXCEPT !.history_closes = h,
                                !.rolling_sum = AddF64(s.rolling_sum, new_val),
                                !.rolling_sum_sq = AddF64(s.rolling_sum_sq, val_sq)]
        ELSE IF s.history_closes # << >>
             THEN [s EXCEPT !.history_closes = [s.history_closes EXCEPT ![Len(s.history_closes)] = new_val],
                            !.rolling_sum = AddF64(s.rolling_sum, new_val),
                            !.rolling_sum_sq = AddF64(s.rolling_sum_sq, val_sq)]
             ELSE [s EXCEPT !.history_closes = << new_val >>,
                            !.rolling_sum = AddF64(s.rolling_sum, new_val),
                            !.rolling_sum_sq = AddF64(s.rolling_sum_sq, val_sq)]

\* update_rolling_stats: the accumulator after the call
BB_update_rolling_stats(s, new_val, is_new) ==
    LET val_sq == MulF64(new_val, new_val)
    IN  IF is_new
        THEN LET h == Append(s.history_closes, new_val)
             IN  IF Len(h) > BB_PERIOD
                 THEN LET removed == h[Len(h) - BB_PERIOD]
                      IN  [s EXCEPT !.history_closes = h,
                                    !.rolling_sum = AddF64(SubF64(s.rolling_sum, removed), new_val),
                                    !.rolling_sum_sq =
                                        AddF64(SubF64(s.rolling_sum_sq, MulF64(removed, removed)),
                                               val_sq)]
                 ELSE [s EXCEPT !.history_closes = h,
                                !.rolling_sum = AddF64(s.rolling_sum, new_val),
                                !.rolling_sum_sq = AddF64(s.rolling_sum_sq, val_sq)]
        ELSE IF s.history_closes # << >>
             THEN LET n   == Len(s.history_closes)
                      old == s.history_closes[n]
                  IN  [s EXCEPT !.history_closes = [s.history_closes EXCEPT ![n] = new_val],
                                !.rolling_sum = AddF64(SubF64(s.rolling_sum, old), new_val),
                                !.rolling_sum_sq =
                                    AddF64(SubF64(s.rolling_sum_sq, MulF64(old, old)), val_sq)]
             ELSE [s EXCEPT !.history_closes = << new_val >>,
                            !.rolling_sum = AddF64(s.rolling_sum, new_val),
                            !.rolling_sum_sq = AddF64(s.rolling_sum_sq, val_sq)]

\* mean_sq - mean * mean, before the clamp
BB_variance(s) ==
    LET mean    == DivF64(s.rolling_sum, Lit(BB_PERIOD))
        mean_sq == DivF64(s.rolling_sum_sq, Lit(BB_PERIOD))
    IN  SubF64(mean_sq, MulF64(mean, mean))

\* update_rolling_stats without variance.max(0.0): a negative variance is
\* carried through the root with its sign
BB_std_dev_unclamped(s) ==
    IF Len(s.history_closes) >= BB_PERIOD
    THEN LET variance == BB_variance(s)
         IN  Some(F32(IF variance >= 0 THEN SqrtF64(variance) ELSE -SqrtF64(-variance)))
    ELSE None

\* update_rolling_stats: the standard deviation it returns
BB_std_dev(s) ==
    IF Len(s.history_closes) >= BB_PERIOD
    THEN LET variance == BB_variance(s)
         IN  Some(F32(SqrtF64(IF variance > 0 THEN variance ELSE 0)))
    ELSE None

BandValue(mid, sd) ==
    [upper  |-> AddF32(mid, MulF32(BB_STD_DEV, sd)),
     middle |-> mid,
     lower  |-> SubF32(mid, MulF32(BB_STD_DEV, sd))]

\* last_ema = Some(mid); if let Some(sd) = std_dev { data.insert(key, band) }
BB_store(s, key, mid, std_dev) ==
    LET e == [s EXCEPT !.last_ema = Some(mid)]
    IN  IF IsSome(std_dev)
        THEN [e EXCEPT !.data = MapInsert(e.data, key, BandValue(mid, Unwrap(std_dev)))]
        ELSE e

\* one iteration of the rebuild loop; l holds the engine and the locals
BB_rebuild_step(l, key, close) ==
    LET e       == BB_update_rolling_stats([l.eng EXCEPT !.last_time = Some(key)], close, TRUE)
        std_dev == BB_std_dev(e)
    IN  IF l.count < BB_PERIOD
        THEN LET sum == AddF32(l.initial_sum, close)
                 cnt == l.count + 1
             IN  IF cnt = BB_PERIOD
                 THEN [eng |-> BB_store(e, key, DivF32(sum, Lit(BB_PERIOD)), std_dev),
                       initial_sum |-> sum, count |-> cnt]
                 ELSE [eng |-> e, initial_sum |-> sum, count |-> cnt]
        ELSE [l EXCEPT !.eng =
                  BB_store(e, key, BB_calculate_next_ema(close, Unwrap(e.last_ema)), std_dev)]

RECURSIVE BB_rebuild_loop(_, _, _)
BB_rebuild_loop(l, src, i) ==
    IF i > Len(src.dps) THEN l
    ELSE BB_rebuild_loop(BB_rebuild_step(l, SourceKey(src, i), Close(src.dps[i])), src, i + 1)

BB_rebuild_from_source(src) ==
    BB_rebuild_loop([eng |-> BB_new, initial_sum |-> 0, count |-> 0], src, 1).eng

\* the clears at the head of rebuild_from_source
BB_reset(s) ==
    [s EXCEPT !.data = EmptyMap, !.history_closes = << >>, !.last_ema = None,
              !.rolling_sum = 0, !.rolling_sum_sq = 0, !.last_time = None]

\* rebuild_from_source on an engine in state s
BB_rebuild_from(s, src) ==
    BB_rebuild_loop([eng |-> BB_reset(s), initial_sum |-> 0, count |-> 0], src, 1).eng

\* a new candle on the incremental paths: seed from the rolling sum, or one EMA step
BB_advance(s, key, close) ==
    LET e       == BB_update_rolling_stats([s EXCEPT !.last_time = Some(key)], close, TRUE)
        std_dev == BB_std_dev(e)
    IN  IF IsSome(e.last_ema)
        THEN BB_store(e, key, BB_calculate_next_ema(close, Unwrap(e.last_ema)), std_dev)
        ELSE IF Len(e.history_closes) >= BB_PERIOD
             THEN BB_store(e, key, F32(DivF64(e.rolling_sum, Lit(BB_PERIOD))), std_dev)
             ELSE e

\* BB_insert_kline with the duplicate test off by one: a kline at last_time is taken
BB_insert_kline_strict(s, kline) ==
    IF IsSome(s.last_time) /\ kline.time < Unwrap(s.last_time)
    THEN s
    ELSE BB_advance(s, kline.time, kline.close)

BB_insert_kline(s, kline) ==
    IF IsSome(s.last_time) /\ kline.time <= Unwrap(s.last_time)
    THEN s
    ELSE BB_advance(s, kline.time, kline.close)

BB_on_insert_klines(s, klines) == FoldSeq(BB_insert_kline, s, klines)

\* the middle band before key: data.range(..time).next_back() for a time-keyed
\* source, data.get(key - 1) for a position-keyed one
BB_prev_ema(s, src, key) ==
    IF src.basis = "TimeBased"
    THEN LET p == KeyBefore(DOMAIN s.data, key)
         IN  IF IsSome(p) THEN Some(s.data[Unwrap(p)].middle) ELSE None
    ELSE IF key > 0 /\ (key - 1) \in DOMAIN s.data THEN Some(s.data[key - 1].middle) ELSE None

BB_on_insert_trades(s, src) ==
    IF src.dps = << >> THEN s
    ELSE LET n      == Len(src.dps)
             key    == SourceKey(src, n)
             close  == Close(src.dps[n])
             is_new == IF IsSome(s.last_time) THEN key > Unwrap(s.last_time) ELSE TRUE
         IN  IF key < UnwrapOr(s.last_time, 0) THEN s
             ELSE IF is_new THEN BB_advance(s, key, close)
             ELSE LET e == BB_update_rolling_stats([s EXCEPT !.last_time = Some(key)],
                                                   close, FALSE)
                      prev_ema == BB_prev_ema(e, src, key)
                  IN  IF IsSome(prev_ema)
                      THEN BB_store(e, key, BB_calculate_next_ema(close, Unwrap(prev_ema)),
                                    BB_std_dev(e))
                      ELSE e

\* on_ticksize_change, on_basis_change: self.rebuild_from_source(source)
BB_on_ticksize_change(s, src) == BB_rebuild_from(s, src)
BB_on_basis_change(s, src) == BB_rebuild_from(s, src)

\* f32::MAX and f32::MIN, beyond every value the model reaches
F32_MAX == Pow2(30)
F32_MIN == -F32_MAX

\* Series::for_each_in(range, f): the keys the closure is called on, ascending
KeysInRange(data, lo, hi) == { k \in DOMAIN data : lo <= k /\ k <= hi }

\* y_extents keeping the lower of the last entry rather than the least
RECURSIVE BB_y_extents_loop_mixed(_, _, _, _)
BB_y_extents_loop_mixed(data, keys, min_v, max_v) ==
    IF keys = {} THEN [min_v |-> min_v, max_v |-> max_v]
    ELSE LET k == CHOOSE x \in keys : \A y \in keys : x <= y
             v == data[k]
         IN  BB_y_extents_loop_mixed(data, keys \ {k},
                 IF v.lower < min_v \/ min_v # F32_MAX THEN v.lower ELSE min_v,
                 IF v.upper > max_v THEN v.upper ELSE max_v)

\* the closure of y_extents applied to the entries in the range
RECURSIVE BB_y_extents_loop(_, _, _, _)
BB_y_extents_loop(data, keys, min_v, max_v) ==
    IF keys = {} THEN [min_v |-> min_v, max_v |-> max_v]
    ELSE LET k == CHOOSE x \in keys : \A y \in keys : x <= y
             v == data[k]
         IN  BB_y_extents_loop(data, keys \ {k},
                 IF v.lower < min_v THEN v.lower ELSE min_v,
                 IF v.upper > max_v THEN v.upper ELSE max_v)

\* BollingerPlot::y_extents(datapoints, lo..=hi)
BB_y_extents(data, lo, hi) ==
    LET r == BB_y_extents_loop(data, KeysInRange(data, lo, hi), F32_MAX, F32_MIN)
    IN  IF r.min_v = F32_MAX THEN None ELSE Some(<< r.min_v, r.max_v >>)


(***************************************************************************)
(* RSI (rsi.rs)                                                            *)
(***************************************************************************)
RSI_new ==
    [data |-> EmptyMap, last_close |-> None,
     finalized_avg_gain |-> None, finalized_avg_loss |-> None,
     candle_count |-> 0, init_gain_sum |-> 0, init_loss_sum |-> 0, last_time |-> None]

\* (close - prev) as f64
RSI_change(close, prev) == SubF32(close, prev)
RSI_gain(change) == IF change > 0 THEN change ELSE 0
\* the loss kept with the sign of the change: (0.0, change)
RSI_loss_signed(change) == IF change > 0 THEN 0 ELSE change
RSI_loss(change) == IF change > 0 THEN 0 ELSE -change

\* (avg * (period - 1.0) + x) / period
RSI_wilder(avg, x) ==
    DivF64(AddF64(MulF64(avg, SubF64(Lit(RSI_PERIOD), Lit(1))), x), Lit(RSI_PERIOD))

\* RSI_value reporting the neutral 50.0 when neither gains nor losses were seen
RSI_value_neutral_when_flat(avg_gain, avg_loss) ==
    F32(IF avg_loss = 0 THEN (IF avg_gain = 0 THEN Lit(50) ELSE Lit(100))
        ELSE SubF64(Lit(100), DivF64(Lit(100), AddF64(Lit(1), DivF64(avg_gain, avg_loss)))))

\* 100.0 if avg_loss == 0.0, else 100.0 - 100.0 / (1.0 + avg_gain / avg_loss); as f32
RSI_value(avg_gain, avg_loss) ==
    F32(IF avg_loss = 0 THEN Lit(100)
        ELSE SubF64(Lit(100), DivF64(Lit(100), AddF64(Lit(1), DivF64(avg_gain, avg_loss)))))

RSI_calc_current_rsi(s) ==
    IF IsSome(s.finalized_avg_gain) /\ IsSome(s.finalized_avg_loss)
    THEN Some(RSI_value(Unwrap(s.finalized_avg_gain), Unwrap(s.finalized_avg_loss)))
    ELSE None

\* process_new_candle: the accumulator after the call (it returns calc_current_rsi)
RSI_process_new_candle(s, close) ==
    LET c == [s EXCEPT !.candle_count = @ + 1]
        d == IF IsSome(c.last_close)
             THEN LET change == RSI_change(close, Unwrap(c.last_close))
                      gain   == RSI_gain(change)
                      loss   == RSI_loss(change)
                  IN  IF c.candle_count <= RSI_PERIOD
                      THEN LET g == AddF64(c.init_gain_sum, gain)
                               l == AddF64(c.init_loss_sum, loss)
                           IN  IF c.candle_count = RSI_PERIOD
                               THEN [c EXCEPT !.init_gain_sum = g, !.init_loss_sum = l,
                                        !.finalized_avg_gain = Some(DivF64(g, Lit(RSI_PERIOD))),
                                        !.finalized_avg_loss = Some(DivF64(l, Lit(RSI_PERIOD)))]
                               ELSE [c EXCEPT !.init_gain_sum = g, !.init_loss_sum = l]
                      ELSE IF IsSome(c.finalized_avg_gain) /\ IsSome(c.finalized_avg_loss)
                           THEN [c EXCEPT
                                    !.finalized_avg_gain =
                                        Some(RSI_wilder(Unwrap(c.finalized_avg_gain), gain)),
                                    !.finalized_avg_loss =
                                        Some(RSI_wilder(Unwrap(c.finalized_avg_loss), loss))]
                           ELSE c
             ELSE c
    IN  [d EXCEPT !.last_close = Some(close)]

\* update_current_candle: the tentative RSI; the accumulator is not written
RSI_update_current_candle(s, close) ==
    IF IsSome(s.last_close) /\ IsSome(s.finalized_avg_gain) /\ IsSome(s.finalized_avg_loss)
    THEN LET change == RSI_change(close, Unwrap(s.last_close))
         IN  Some(RSI_value(RSI_wilder(Unwrap(s.finalized_avg_gain), RSI_gain(change)),
                            RSI_wilder(Unwrap(s.finalized_avg_loss), RSI_loss(change))))
    ELSE None

\* data.insert(key, rsi) if there is an rsi
RSI_put(s, key, rsi) ==
    IF IsSome(rsi) THEN [s EXCEPT !.data = MapInsert(s.data, key, Unwrap(rsi))] ELSE s

\* last_time = key; process_new_candle(close); insert the value if there is one
RSI_ingest(s, key, close) ==
    LET e == RSI_process_new_candle([s EXCEPT !.last_time = Some(key)], close)
    IN  RSI_put(e, key, RSI_calc_current_rsi(e))

RECURSIVE RSI_rebuild_loop(_, _, _)
RSI_rebuild_loop(s, src, i) ==
    IF i > Len(src.dps) THEN s
    ELSE RSI_rebuild_loop(RSI_ingest(s, SourceKey(src, i), Close(src.dps[i])), src, i + 1)

RSI_rebuild_from_source(src) == RSI_rebuild_loop(RSI_new, src, 1)

\* rebuild_from_source leaving candle_count as it was
RSI_reset_keeping_count(s) ==
    [s EXCEPT !.data = EmptyMap, !.last_close = None,
              !.finalized_avg_gain = None, !.finalized_avg_loss = None,
              !.init_gain_sum = 0, !.init_loss_sum = 0, !.last_time = None]

\* the clears at the head of rebuild_from_source
RSI_reset(s) ==
    [s EXCEPT !.data = EmptyMap, !.last_close = None,
              !.finalized_avg_gain = None, !.finalized_avg_loss = None,
              !.candle_count = 0, !.init_gain_sum = 0, !.init_loss_sum = 0,
              !.last_time = None]

\* rebuild_from_source on an engine in state s
RSI_rebuild_from(s, src) == RSI_rebuild_loop(RSI_reset(s), src, 1)

RSI_insert_kline(s, kline) ==
    IF IsSome(s.last_time) /\ kline.time <= Unwrap(s.last_time)
    THEN s
    ELSE RSI_ingest(s, kline.time, kline.close)

RSI_on_insert_klines(s, klines) == FoldSeq(RSI_insert_kline, s, klines)

\* RSI_on_insert_trades committing every revision through process_new_candle
RSI_on_insert_trades_committing(s, src) ==
    IF src.dps = << >> THEN s
    ELSE LET n     == Len(src.dps)
             key   == SourceKey(src, n)
             close == Close(src.dps[n])
         IN  IF key < UnwrapOr(s.last_time, 0) THEN s
             ELSE RSI_ingest(s, key, close)

RSI_on_insert_trades(s, src) ==
    IF src.dps = << >> THEN s
    ELSE LET n      == Len(src.dps)
             key    == SourceKey(src, n)
             close  == Close(src.dps[n])
             is_new == IF IsSome(s.last_time) THEN key > Unwrap(s.last_time) ELSE TRUE
         IN  IF key < UnwrapOr(s.last_time, 0) THEN s
             ELSE IF is_new THEN RSI_ingest(s, key, close)
             ELSE RSI_put(s, key, RSI_update_current_candle(s, close))

\* on_ticksize_change, on_basis_change: self.rebuild_from_source(source)
RSI_on_ticksize_change(s, src) == RSI_rebuild_from(s, src)
RSI_on_basis_change(s, src) == RSI_rebuild_from(s, src)

(***************************************************************************)
(* Cumulative Delta (cumulative_delta.rs)                                  *)
(***************************************************************************)
CD_new == [cumulative_data |-> EmptyMap, per_candle_delta |-> EmptyMap, last_time |-> None]

\* 0.001 as an f32
CD_EPSILON == Round(One, 1000, F32_LIMIT)

\* the loop of recalculate_cumulative_from over the keys not yet visited
RECURSIVE CD_recalculate_loop(_, _, _)
CD_recalculate_loop(s, keys, running_sum) ==
    IF keys = {} THEN s
    ELSE LET time == CHOOSE k \in keys : \A j \in keys : k <= j
             sum  == AddF64(running_sum, s.per_candle_delta[time])
         IN  CD_recalculate_loop(
                 [s EXCEPT !.cumulative_data = MapInsert(s.cumulative_data, time, F32(sum))],
                 keys \ {time}, sum)

\* recalculate_cumulative_from starting from the entry at from_time itself
\* (range(..=from_time))
CD_recalculate_from_own_entry(s, from_time) ==
    LET p == KeyBefore(DOMAIN s.cumulative_data, from_time + 1)
        running_sum == IF IsSome(p) THEN s.cumulative_data[Unwrap(p)] ELSE 0
    IN  CD_recalculate_loop(s, {k \in DOMAIN s.per_candle_delta : k >= from_time}, running_sum)

\* recalculate_cumulative_from over the entries after from_time only
\* (range((Excluded(from_time), Unbounded)))
CD_recalculate_after_entry(s, from_time) ==
    LET p == KeyBefore(DOMAIN s.cumulative_data, from_time)
        running_sum == IF IsSome(p) THEN s.cumulative_data[Unwrap(p)] ELSE 0
    IN  CD_recalculate_loop(s, {k \in DOMAIN s.per_candle_delta : k > from_time}, running_sum)

CD_recalculate_cumulative_from(s, from_time) ==
    LET p == KeyBefore(DOMAIN s.cumulative_data, from_time)
        running_sum == IF IsSome(p) THEN s.cumulative_data[Unwrap(p)] ELSE 0
    IN  CD_recalculate_loop(s, {k \in DOMAIN s.per_candle_delta : k >= from_time}, running_sum)

\* one iteration of the rebuild loop; l holds the engine and running_sum
CD_rebuild_step(l, key, delta) ==
    LET sum == AddF64(l.running_sum, delta)
    IN  [eng |-> [cumulative_data  |-> MapInsert(l.eng.cumulative_data, key, F32(sum)),
                  per_candle_delta |-> MapInsert(l.eng.per_candle_delta, key, delta),
                  last_time        |-> Some(key)],
         running_sum |-> sum]

RECURSIVE CD_rebuild_loop(_, _, _)
CD_rebuild_loop(l, src, i) ==
    IF i > Len(src.dps) THEN l
    ELSE CD_rebuild_loop(CD_rebuild_step(l, SourceKey(src, i), Delta(src.dps[i])), src, i + 1)

CD_rebuild_from_source(src) == CD_rebuild_loop([eng |-> CD_new, running_sum |-> 0], src, 1).eng

\* the clears at the head of rebuild_from_source
CD_reset(s) ==
    [s EXCEPT !.cumulative_data = EmptyMap, !.per_candle_delta = EmptyMap,
              !.last_time = None]

\* rebuild_from_source on an engine in state s
CD_rebuild_from(s, src) ==
    CD_rebuild_loop([eng |-> CD_reset(s), running_sum |-> 0], src, 1).eng

\* one iteration of the on_insert_klines loop; l holds the engine and earliest_update
CD_insert_kline(l, kline) ==
    LET delta     == Delta(kline)
        old_delta == MapGet(l.eng.per_candle_delta, kline.time)
        is_update == IF IsSome(old_delta)
                     THEN Abs(SubF32(Unwrap(old_delta), delta)) > CD_EPSILON
                     ELSE FALSE
        is_new    == old_delta = None
    IN  IF is_new \/ is_update
        THEN [eng |-> [l.eng EXCEPT
                          !.per_candle_delta = MapInsert(@, kline.time, delta),
                          !.last_time = IF is_new THEN Some(kline.time) ELSE @],
              earliest_update |->
                  IF l.earliest_update = None \/ kline.time < Unwrap(l.earliest_update)
                  THEN Some(kline.time) ELSE l.earliest_update]
        ELSE l

CD_on_insert_klines(s, klines) ==
    LET l == FoldSeq(CD_insert_kline, [eng |-> s, earliest_update |-> None], klines)
    IN  IF IsSome(l.earliest_update)
        THEN CD_recalculate_cumulative_from(l.eng, Unwrap(l.earliest_update))
        ELSE l.eng

CD_on_insert_trades(s, src) ==
    IF src.dps = << >> THEN s
    ELSE LET n      == Len(src.dps)
             key    == SourceKey(src, n)
             delta  == Delta(src.dps[n])
             is_new == key \notin DOMAIN s.per_candle_delta
         IN  IF key < UnwrapOr(s.last_time, 0) THEN s
             ELSE CD_recalculate_cumulative_from(
                      [s EXCEPT !.per_candle_delta = MapInsert(@, key, delta),
                                !.last_time = IF is_new THEN Some(key) ELSE @],
                      key)

\* on_ticksize_change, on_basis_change: self.rebuild_from_source(source)
CD_on_ticksize_change(s, src) == CD_rebuild_from(s, src)
CD_on_basis_change(s, src) == CD_rebuild_from(s, src)

\* on_insert_trades returns before its cache call: SMA, Bollinger, RSI, Cumulative Delta
ReturnsEarly(last_time, src) ==
    /\ src.dps # << >>
    /\ SourceKey(src, Len(src.dps)) < UnwrapOr(last_time, 0)


(***************************************************************************)
(* The state machine                                                       *)
(***************************************************************************)
VARIABLES
    kind,              \* the engine constructed: one KlineIndicatorImpl
    source,            \* the chart's PlotData<KlineDataPoint>
    sma, ema, bb, rsi, cd,   \* the engine's fields (only the one of `kind` moves)
    cache,             \* the engine's Caches: "empty" after clear_all, else "filled"
    last_cache_clear,  \* the engine's last_cache_clear (EMA, Bollinger, RSI, Cumulative Delta)
    now,               \* Instant::now(), in ms
    last_call,         \* history: the last call made on the engine and its arguments
    last_clear         \* history: whether the last step called cache.clear_all(), and the
                       \* clock reading at the last such call (at construction before any)

vars == << kind, source, sma, ema, bb, rsi, cd, cache, last_cache_clear, now, last_call,
          last_clear >>
engines == << sma, ema, bb, rsi, cd >>

Kinds == {"SMA", "EMA", "Bollinger", "RSI", "CumulativeDelta"}

CACHE_THROTTLE_MS == 200

Call(op, klines, old_dp_len) == [op |-> op, klines |-> klines, old_dp_len |-> old_dp_len]

Init ==
    /\ kind \in Kinds
    /\ source \in { EmptySource(b) : b \in Bases }
    /\ sma = SMA_new
    /\ ema = EMA_new
    /\ bb = BB_new
    /\ rsi = RSI_new
    /\ cd = CD_new
    /\ cache = "empty"
    /\ now = 0
    /\ last_clear = [in_call |-> FALSE, at |-> 0]
    /\ last_cache_clear = 0
    /\ last_call = Call("new", << >>, 0)

\* history kept by a step that calls cache.clear_all(), and by one that does not
Clearing == last_clear' = [in_call |-> TRUE, at |-> now]
NoClearing == last_clear' = [last_clear EXCEPT !.in_call = FALSE]

\* cache.clear_all()
ClearAllCaches == cache' = "empty" /\ UNCHANGED last_cache_clear /\ Clearing
\* force_clear_caches gated by the elapsed time, as maybe_clear_caches is
ForceClearCaches_throttled ==
    IF now - last_cache_clear >= CACHE_THROTTLE_MS
    THEN cache' = "empty" /\ last_cache_clear' = now /\ Clearing
    ELSE UNCHANGED << cache, last_cache_clear >> /\ NoClearing

\* force_clear_caches
ForceClearCaches == cache' = "empty" /\ last_cache_clear' = now /\ Clearing
\* maybe_clear_caches without the elapsed-time test
MaybeClearCaches_unthrottled == cache' = "empty" /\ last_cache_clear' = now /\ Clearing

\* maybe_clear_caches
MaybeClearCaches ==
    IF now - last_cache_clear >= CACHE_THROTTLE_MS
    THEN cache' = "empty" /\ last_cache_clear' = now /\ Clearing
    ELSE UNCHANGED << cache, last_cache_clear >> /\ NoClearing

Period(k) ==
    CASE k = "SMA" -> SMA_PERIOD
      [] k = "EMA" -> EMA_PERIOD
      [] k = "Bollinger" -> BB_PERIOD
      [] k = "RSI" -> RSI_PERIOD
      [] OTHER -> CD_SPAN

\* longest source (number of datapoints) an engine of kind k is run against
MaxLen(k) == Period(k) + MaxAfterSeed

\* the environment: a new candle opens at the end of the source
SourceAppend ==
    /\ Len(source.dps) < MaxLen(kind)
    /\ \E sh \in Shapes, t \in Keys :
          /\ IF source.basis = "TimeBased"
             THEN (IF source.dps = << >> THEN TRUE ELSE t > source.dps[Len(source.dps)].time)
             ELSE t = Len(source.dps)
          /\ source' = [source EXCEPT !.dps = Append(@, Kline(t, sh))]
    /\ last_call' = Call("append", << >>, 0)
    /\ NoClearing
    /\ UNCHANGED << kind, engines, cache, last_cache_clear, now >>

\* the environment: trades change the open (last) candle in place
SourceRevise ==
    /\ source.dps # << >>
    /\ \E sh \in Shapes :
          LET n == Len(source.dps)
          IN  /\ Kline(source.dps[n].time, sh) # source.dps[n]
              /\ source' = [source EXCEPT !.dps[n] = Kline(source.dps[n].time, sh)]
    /\ last_call' = Call("revise", << >>, 0)
    /\ NoClearing
    /\ UNCHANGED << kind, engines, cache, last_cache_clear, now >>

SMA_RebuildFromSource ==
    /\ kind = "SMA"
    /\ last_call' = Call("rebuild", << >>, 0)
    /\ sma' = SMA_rebuild_from(sma, source)
    /\ ClearAllCaches
    /\ UNCHANGED << kind, source, ema, bb, rsi, cd, now >>

SMA_OnInsertKlines ==
    /\ kind = "SMA"
    /\ \E klines \in Batches(source) :
          /\ sma' = SMA_on_insert_klines(sma, klines)
          /\ last_call' = Call("klines", klines, 0)
    /\ ClearAllCaches
    /\ UNCHANGED << kind, source, ema, bb, rsi, cd, now >>

SMA_OnInsertTrades ==
    /\ kind = "SMA"
    /\ last_call' = Call("trades", << >>, Len(source.dps))
    /\ sma' = SMA_on_insert_trades(sma, source)
    /\ IF ReturnsEarly(sma.last_time, source)
       THEN UNCHANGED << cache, last_cache_clear >> /\ NoClearing
       ELSE ClearAllCaches
    /\ UNCHANGED << kind, source, ema, bb, rsi, cd, now >>

EMA_RebuildFromSource ==
    /\ kind = "EMA"
    /\ last_call' = Call("rebuild", << >>, 0)
    /\ ema' = EMA_rebuild_from(ema, source)
    /\ ForceClearCaches
    /\ UNCHANGED << kind, source, sma, bb, rsi, cd, now >>

EMA_OnInsertKlines ==
    /\ kind = "EMA"
    /\ \E klines \in Batches(source) :
          /\ ema.history_len + Len(klines) <= MaxHist
          /\ ema' = EMA_on_insert_klines(ema, klines)
          /\ last_call' = Call("klines", klines, 0)
    /\ MaybeClearCaches
    /\ UNCHANGED << kind, source, sma, bb, rsi, cd, now >>

EMA_OnInsertTrades ==
    /\ kind = "EMA"
    /\ \E old_dp_len \in 0..Len(source.dps) :
          /\ source.basis = "TimeBased" => old_dp_len = Len(source.dps)
          /\ ema' = EMA_on_insert_trades(ema, old_dp_len, source)
          /\ ema'.history_len <= MaxHist
          /\ last_call' = Call("trades", << >>, old_dp_len)
    /\ MaybeClearCaches
    /\ UNCHANGED << kind, source, sma, bb, rsi, cd, now >>

BB_RebuildFromSource ==
    /\ kind = "Bollinger"
    /\ last_call' = Call("rebuild", << >>, 0)
    /\ bb' = BB_rebuild_from(bb, source)
    /\ ForceClearCaches
    /\ UNCHANGED << kind, source, sma, ema, rsi, cd, now >>

BB_OnInsertKlines ==
    /\ kind = "Bollinger"
    /\ \E klines \in Batches(source) :
          /\ bb' = BB_on_insert_klines(bb, klines)
          /\ last_call' = Call("klines", klines, 0)
    /\ MaybeClearCaches
    /\ UNCHANGED << kind, source, sma, ema, rsi, cd, now >>

BB_OnInsertTrades ==
    /\ kind = "Bollinger"
    /\ last_call' = Call("trades", << >>, Len(source.dps))
    /\ bb' = BB_on_insert_trades(bb, source)
    /\ IF ReturnsEarly(bb.last_time, source)
       THEN UNCHANGED << cache, last_cache_clear >> /\ NoClearing
       ELSE MaybeClearCaches
    /\ UNCHANGED << kind, source, sma, ema, rsi, cd, now >>

RSI_RebuildFromSource ==
    /\ kind = "RSI"
    /\ last_call' = Call("rebuild", << >>, 0)
    /\ rsi' = RSI_rebuild_from(rsi, source)
    /\ ForceClearCaches
    /\ UNCHANGED << kind, source, sma, ema, bb, cd, now >>

RSI_OnInsertKlines ==
    /\ kind = "RSI"
    /\ \E klines \in Batches(source) :
          /\ rsi' = RSI_on_insert_klines(rsi, klines)
          /\ last_call' = Call("klines", klines, 0)
    /\ MaybeClearCaches
    /\ UNCHANGED << kind, source, sma, ema, bb, cd, now >>

\* on_insert_trades of RSI computing only when the throttle permits a clear
RSI_OnInsertTrades_throttled ==
    /\ kind = "RSI"
    /\ last_call' = Call("trades", << >>, Len(source.dps))
    /\ rsi' = IF now - last_cache_clear >= CACHE_THROTTLE_MS
              THEN RSI_on_insert_trades(rsi, source)
              ELSE rsi
    /\ IF ReturnsEarly(rsi.last_time, source)
       THEN UNCHANGED << cache, last_cache_clear >> /\ NoClearing
       ELSE MaybeClearCaches
    /\ UNCHANGED << kind, source, sma, ema, bb, cd, now >>

RSI_OnInsertTrades ==
    /\ kind = "RSI"
    /\ last_call' = Call("trades", << >>, Len(source.dps))
    /\ rsi' = RSI_on_insert_trades(rsi, source)
    /\ IF ReturnsEarly(rsi.last_time, source)
       THEN UNCHANGED << cache, last_cache_clear >> /\ NoClearing
       ELSE MaybeClearCaches
    /\ UNCHANGED << kind, source, sma, ema, bb, cd, now >>

CD_RebuildFromSource ==
    /\ kind = "CumulativeDelta"
    /\ last_call' = Call("rebuild", << >>, 0)
    /\ cd' = CD_rebuild_from(cd, source)
    /\ ForceClearCaches
    /\ UNCHANGED << kind, source, sma, ema, bb, rsi, now >>

CD_OnInsertKlines ==
    /\ kind = "CumulativeDelta"
    /\ \E klines \in Batches(source) :
          /\ cd' = CD_on_insert_klines(cd, klines)
          /\ last_call' = Call("klines", klines, 0)
    /\ MaybeClearCaches
    /\ UNCHANGED << kind, source, sma, ema, bb, rsi, now >>

CD_OnInsertTrades ==
    /\ kind = "CumulativeDelta"
    /\ last_call' = Call("trades", << >>, Len(source.dps))
    /\ cd' = CD_on_insert_trades(cd, source)
    /\ IF ReturnsEarly(cd.last_time, source)
       THEN UNCHANGED << cache, last_cache_clear >> /\ NoClearing
       ELSE MaybeClearCaches
    /\ UNCHANGED << kind, source, sma, ema, bb, rsi, now >>

\* the structural changes: the caller has re-aggregated the source (any source
\* the model reaches stands for it) and hands it to the engine
SMA_OnTicksizeChange ==
    /\ kind = "SMA"
    /\ last_call' = Call("ticksize", << >>, 0)
    /\ sma' = SMA_on_ticksize_change(sma, source)
    /\ ClearAllCaches
    /\ UNCHANGED << kind, source, ema, bb, rsi, cd, now >>

SMA_OnBasisChange ==
    /\ kind = "SMA"
    /\ last_call' = Call("basis", << >>, 0)
    /\ sma' = SMA_on_basis_change(sma, source)
    /\ ClearAllCaches
    /\ UNCHANGED << kind, source, ema, bb, rsi, cd, now >>

EMA_OnTicksizeChange ==
    /\ kind = "EMA"
    /\ last_call' = Call("ticksize", << >>, 0)
    /\ ema' = EMA_on_ticksize_change(ema, source)
    /\ ForceClearCaches
    /\ UNCHANGED << kind, source, sma, bb, rsi, cd, now >>

EMA_OnBasisChange ==
    /\ kind = "EMA"
    /\ last_call' = Call("basis", << >>, 0)
    /\ ema' = EMA_on_basis_change(ema, source)
    /\ ForceClearCaches
    /\ UNCHANGED << kind, source, sma, bb, rsi, cd, now >>

BB_OnTicksizeChange ==
    /\ kind = "Bollinger"
    /\ last_call' = Call("ticksize", << >>, 0)
    /\ bb' = BB_on_ticksize_change(bb, source)
    /\ ForceClearCaches
    /\ UNCHANGED << kind, source, sma, ema, rsi, cd, now >>

BB_OnBasisChange ==
    /\ kind = "Bollinger"
    /\ last_call' = Call("basis", << >>, 0)
    /\ bb' = BB_on_basis_change(bb, source)
    /\ ForceClearCaches
    /\ UNCHANGED << kind, source, sma, ema, rsi, cd, now >>

RSI_OnTicksizeChange ==
    /\ kind = "RSI"
    /\ last_call' = Call("ticksize", << >>, 0)
    /\ rsi' = RSI_on_ticksize_change(rsi, source)
    /\ ForceClearCaches
    /\ UNCHANGED << kind, source, sma, ema, bb, cd, now >>

RSI_OnBasisChange ==
    /\ kind = "RSI"
    /\ last_call' = Call("basis", << >>, 0)
    /\ rsi' = RSI_on_basis_change(rsi, source)
    /\ ForceClearCaches
    /\ UNCHANGED << kind, source, sma, ema, bb, cd, now >>

CD_OnTicksizeChange ==
    /\ kind = "CumulativeDelta"
    /\ last_call' = Call("ticksize", << >>, 0)
    /\ cd' = CD_on_ticksize_change(cd, source)
    /\ ForceClearCaches
    /\ UNCHANGED << kind, source, sma, ema, bb, rsi, now >>

CD_OnBasisChange ==
    /\ kind = "CumulativeDelta"
    /\ last_call' = Call("basis", << >>, 0)
    /\ cd' = CD_on_basis_change(cd, source)
    /\ ForceClearCaches
    /\ UNCHANGED << kind, source, sma, ema, bb, rsi, now >>

\* the chart asks the Bollinger plot for the extent of a visible range
BB_YExtents ==
    /\ kind = "Bollinger"
    /\ last_call' = Call("y_extents", << >>, 0)
    /\ \E lo \in Keys, hi \in Keys :
          /\ lo <= hi
          /\ LET extent == BB_y_extents(bb.data, lo, hi)
             IN  extent = None \/ IsSome(extent)
    /\ NoClearing
    /\ UNCHANGED << kind, source, engines, cache, last_cache_clear, now >>

Next ==
    \/ SourceAppend
    \/ SourceRevise
    \/ SMA_RebuildFromSource
    \/ SMA_OnInsertKlines
    \/ SMA_OnInsertTrades
    \/ EMA_RebuildFromSource
    \/ EMA_OnInsertKlines
    \/ EMA_OnInsertTrades
    \/ BB_RebuildFromSource
    \/ BB_OnInsertKlines
    \/ BB_OnInsertTrades
    \/ RSI_RebuildFromSource
    \/ RSI_OnInsertKlines
    \/ RSI_OnInsertTrades
    \/ CD_RebuildFromSource
    \/ CD_OnInsertKlines
    \/ CD_OnInsertTrades
    \/ SMA_OnTicksizeChange
    \/ SMA_OnBasisChange
    \/ EMA_OnTicksizeChange
    \/ EMA_OnBasisChange
    \/ BB_OnTicksizeChange
    \/ BB_OnBasisChange
    \/ RSI_OnTicksizeChange
    \/ RSI_OnBasisChange
    \/ CD_OnTicksizeChange
    \/ CD_OnBasisChange
    \/ BB_YExtents

Spec == Init /\ [][Next]_vars

\* the clock: Instant::now() reads later
Tick ==
    /\ now < MaxTicks * TickMs
    /\ now' = now + TickMs
    /\ last_call' = Call("tick", << >>, 0)
    /\ NoClearing
    /\ UNCHANGED << kind, source, engines, cache, last_cache_clear >>

\* element: indicator_overlay draws the series through the cache and fills it
Render ==
    /\ cache = "empty"
    /\ cache' = "filled"
    /\ last_call' = Call("render", << >>, 0)
    /\ NoClearing
    /\ UNCHANGED << kind, source, engines, last_cache_clear, now >>

\* the calls of Next on short sources, with the clock running and the chart drawn
TimedCall == Next /\ Len(source'.dps) <= TimedMaxLen

NextTimed ==
    \/ TimedCall
    \/ Tick
    \/ Render

SpecTimed == Init /\ [][NextTimed]_vars


(***************************************************************************)
(* Rebuild against incremental delivery (C1, C2, C3)                       *)
(***************************************************************************)
\* one on_insert_klines call carrying one candle
SMA_one_call(s, kline) == SMA_on_insert_klines(s, << kline >>)
EMA_one_call(s, kline) == EMA_on_insert_klines(s, << kline >>)
BB_one_call(s, kline) == BB_on_insert_klines(s, << kline >>)
RSI_one_call(s, kline) == RSI_on_insert_klines(s, << kline >>)
CD_one_call(s, kline) == CD_on_insert_klines(s, << kline >>)

\* a freshly constructed engine that received the candles of src one at a time, in
\* key order, through on_insert_klines
SMA_incremental(src) == FoldSeq(SMA_one_call, SMA_new, src.dps)
EMA_incremental(src) == FoldSeq(EMA_one_call, EMA_new, src.dps)
BB_incremental(src) == FoldSeq(BB_one_call, BB_new, src.dps)
RSI_incremental(src) == FoldSeq(RSI_one_call, RSI_new, src.dps)
CD_incremental(src) == FoldSeq(CD_one_call, CD_new, src.dps)

\* the keys of src are strictly increasing
StrictlyIncreasing(src) ==
    \A i, j \in 1..Len(src.dps) : i < j => SourceKey(src, i) < SourceKey(src, j)

\* C1 (as stated): for SMA, Bollinger and RSI, and any source with strictly
\* increasing keys, the output series of rebuild_from_source(source) equals the
\* output series of a fresh engine fed the same candles one at a time, in key
\* order, through on_insert_klines.
C1_RebuildEqualsIncremental ==
    StrictlyIncreasing(source) =>
        /\ kind = "SMA" =>
              SMA_rebuild_from_source(source).data = SMA_incremental(source).data
        /\ kind = "Bollinger" =>
              BB_rebuild_from_source(source).data = BB_incremental(source).data
        /\ kind = "RSI" =>
              RSI_rebuild_from_source(source).data = RSI_incremental(source).data

\* the part of C1 about SMA and RSI, which share one helper between both paths
C1_SMA_RSI_Part ==
    StrictlyIncreasing(source) =>
        /\ kind = "SMA" =>
              SMA_rebuild_from_source(source).data = SMA_incremental(source).data
        /\ kind = "RSI" =>
              RSI_rebuild_from_source(source).data = RSI_incremental(source).data

\* C2 (as stated): for EMA and any source with strictly increasing keys, the
\* output series of rebuild_from_source(source) equals the output series of a
\* fresh engine fed the same candles one at a time through on_insert_klines; the
\* N-th candle fed incrementally produces the seed entry.
C2_EMARebuildEqualsIncremental ==
    (kind = "EMA" /\ StrictlyIncreasing(source)) =>
        EMA_rebuild_from_source(source).data = EMA_incremental(source).data

\* C3 (as stated): for Cumulative Delta and any source with strictly increasing
\* keys, the cumulative series of rebuild_from_source(source) equals the
\* cumulative series of a fresh engine fed the same candles one at a time, in key
\* order, through on_insert_klines.
C3_CDRebuildEqualsIncremental ==
    (kind = "CumulativeDelta" /\ StrictlyIncreasing(source)) =>
        CD_rebuild_from_source(source).cumulative_data
            = CD_incremental(source).cumulative_data


(***************************************************************************)
(* Duplicate and out-of-order klines (C4, C5, C6)                          *)
(***************************************************************************)
\* every kline an exchange can deliver: any key, any close and volumes
AnyKline == { Kline(t, sh) : t \in Keys, sh \in Shapes }

\* C4: SMA, Bollinger and RSI: an on_insert_klines candle whose key is less than
\* or equal to last_time is dropped, whatever its close: the output series and
\* every accumulator field of the engine are what they were before the call.
C4_StaleKlineDropped ==
    /\ (kind = "SMA" /\ IsSome(sma.last_time)) =>
          \A k \in AnyKline :
              k.time <= Unwrap(sma.last_time) => SMA_on_insert_klines(sma, << k >>) = sma
    /\ (kind = "Bollinger" /\ IsSome(bb.last_time)) =>
          \A k \in AnyKline :
              k.time <= Unwrap(bb.last_time) => BB_on_insert_klines(bb, << k >>) = bb
    /\ (kind = "RSI" /\ IsSome(rsi.last_time)) =>
          \A k \in AnyKline :
              k.time <= Unwrap(rsi.last_time) => RSI_on_insert_klines(rsi, << k >>) = rsi

\* C4 happens: a Bollinger engine with output was just handed a kline below its
\* last_time, whose close is not the one it holds for the latest candle
C4_Witness ==
    /\ kind = "Bollinger"
    /\ last_call.op = "klines"
    /\ IsSome(bb.last_time)
    /\ last_call.klines[1].time < Unwrap(bb.last_time)
    /\ bb.data # EmptyMap
    /\ last_call.klines[1].close # bb.history_closes[Len(bb.history_closes)]

\* the candles of the source, each with key <= the key of the source's last candle
SourceCandles(src) == { src.dps[i] : i \in 1..Len(src.dps) }

\* C5 (as stated): EMA: an on_insert_klines candle whose key is <= the key of the
\* last candle the engine already processed (by rebuild_from_source,
\* on_insert_klines or on_insert_trades) is dropped: output series, last_ema and
\* history_len are unchanged.
C5_EMAStaleKlineDropped ==
    (kind = "EMA" /\ source.dps # << >>) =>
        /\ last_call.op = "rebuild" =>
              \A k \in SourceCandles(source) : EMA_on_insert_klines(ema, << k >>) = ema
        /\ last_call.op = "klines" =>
              EMA_on_insert_klines(ema, last_call.klines) = ema
        /\ last_call.op = "trades" =>
              EMA_on_insert_klines(ema, << source.dps[Len(source.dps)] >>) = ema

\* C6 (as stated): Cumulative Delta: an on_insert_klines candle whose key is <=
\* last_time is dropped: cumulative_data, per_candle_delta and last_time are
\* unchanged, whether the key is stored (same or different delta) or a
\* not-yet-stored key below last_time.
C6_CDStaleKlineDropped ==
    (kind = "CumulativeDelta" /\ IsSome(cd.last_time)) =>
        \A k \in AnyKline :
            k.time <= Unwrap(cd.last_time) => CD_on_insert_klines(cd, << k >>) = cd


(***************************************************************************)
(* Revisions of the open candle (C7, C8, C9, C10)                          *)
(***************************************************************************)
\* the old_dp_len values on_insert_trades is called with for src
OldLens(src) == IF src.basis = "TimeBased" THEN { Len(src.dps) } ELSE 0..Len(src.dps)

\* key and close of the open (last) candle of a non-empty source
OpenKey(src) == SourceKey(src, Len(src.dps))
OpenClose(src) == Close(src.dps[Len(src.dps)])

\* the source key immediately preceding the open candle's key, if any
PrecedingKey(src) == KeyBefore(SourceKeys(src), OpenKey(src))

\* C7: EMA: on_insert_trades called twice in a row for the same open candle with
\* the same close yields the same output entry at that key and the same last_ema
\* both times, and the second call (no bar was added since the first) changes
\* nothing.
C7_EMARevisionNoDrift ==
    (kind = "EMA" /\ source.dps # << >>) =>
        \A old1 \in OldLens(source) :
            LET once == EMA_on_insert_trades(ema, old1, source)
            IN  \A old2 \in { old1, Len(source.dps) } :
                    LET twice == EMA_on_insert_trades(once, old2, source)
                    IN  /\ MapGet(twice.data, OpenKey(source))
                              = MapGet(once.data, OpenKey(source))
                        /\ twice.data = once.data
                        /\ twice.last_ema = once.last_ema
                        /\ old2 = Len(source.dps) => twice = once

\* C7 happens: on_insert_trades has just revised the open candle of an EMA engine
\* to a value that differs from its close and from the value before it, and a
\* second call would find the same entry
C7_Witness ==
    /\ kind = "EMA"
    /\ last_call.op = "trades"
    /\ source.dps # << >>
    /\ IsSome(PrecedingKey(source))
    /\ Unwrap(PrecedingKey(source)) \in DOMAIN ema.data
    /\ OpenKey(source) \in DOMAIN ema.data
    /\ ema.data[OpenKey(source)] # OpenClose(source)
    /\ ema.data[OpenKey(source)] # ema.data[Unwrap(PrecedingKey(source))]
    /\ ema.last_ema = Some(ema.data[OpenKey(source)])
    /\ EMA_on_insert_trades(ema, Len(source.dps), source) = ema

\* C8: RSI: on_insert_trades called twice in a row for the same already-ingested
\* open candle with the same close yields the same output entry at that key both
\* times, and the second call leaves every accumulator field unchanged.
C8_RSIRevisionNoDrift ==
    (kind = "RSI" /\ source.dps # << >> /\ rsi.last_time = Some(OpenKey(source))) =>
        LET once  == RSI_on_insert_trades(rsi, source)
            twice == RSI_on_insert_trades(once, source)
        IN  /\ MapGet(twice.data, OpenKey(source)) = MapGet(once.data, OpenKey(source))
            /\ twice = once
            /\ [once EXCEPT !.data = rsi.data] = rsi

\* C8 happens: on_insert_trades has just revised the already-ingested open candle
\* of a seeded RSI engine to a close other than the one it was ingested with, and
\* the entry stored is the tentative RSI of that close
C8_Witness ==
    /\ kind = "RSI"
    /\ last_call.op = "trades"
    /\ source.dps # << >>
    /\ rsi.last_time = Some(OpenKey(source))
    /\ IsSome(rsi.finalized_avg_gain)
    /\ OpenClose(source) # Unwrap(rsi.last_close)
    /\ MapGet(rsi.data, OpenKey(source)) = RSI_update_current_candle(rsi, OpenClose(source))
    /\ MapGet(rsi.data, OpenKey(source)) # RSI_calc_current_rsi(rsi)

\* C9: EMA: after on_insert_trades revises the open candle at key k to close c,
\* and the key p immediately preceding k has an output entry, output[k] =
\* (c - output[p]) * multiplier + output[p], for time-keyed and position-keyed
\* sources alike and whatever was stored at k before.
C9_EMARevisionBase ==
    (kind = "EMA" /\ source.dps # << >> /\ IsSome(PrecedingKey(source))) =>
        \A old \in OldLens(source) :
            LET after == EMA_on_insert_trades(ema, old, source)
                k     == OpenKey(source)
                p     == Unwrap(PrecedingKey(source))
                c     == OpenClose(source)
            IN  p \in DOMAIN after.data =>
                    /\ k \in DOMAIN after.data
                    /\ after.data[k]
                          = AddF32(MulF32(SubF32(c, after.data[p]), EMA_multiplier),
                                   after.data[p])

\* C9 happens: the open candle of an EMA engine has just been revised over an
\* existing entry at p, and its entry is the recurrence over output[p], which is
\* not what the recurrence over the entry at k itself would give
C9_Witness ==
    /\ kind = "EMA"
    /\ last_call.op = "trades"
    /\ source.dps # << >>
    /\ IsSome(PrecedingKey(source))
    /\ Unwrap(PrecedingKey(source)) \in DOMAIN ema.data
    /\ OpenKey(source) \in DOMAIN ema.data
    /\ ema.data[OpenKey(source)]
          = EMA_calculate_next_ema(OpenClose(source), ema.data[Unwrap(PrecedingKey(source))])
    /\ ema.data[OpenKey(source)]
          # EMA_calculate_next_ema(OpenClose(source), ema.data[OpenKey(source)])

\* src with its open candle revised to shape sh
Revised(src, sh) ==
    [src EXCEPT !.dps[Len(src.dps)] = Kline(src.dps[Len(src.dps)].time, sh)]

\* the simple average of the closes of src, as an f32 sum and as an f64 sum
AddCloseF32(acc, dp) == AddF32(acc, Close(dp))
AddCloseF64(acc, dp) == AddF64(acc, Close(dp))
SimpleAverages(src) ==
    { DivF32(FoldSeq(AddCloseF32, 0, src.dps), Lit(Len(src.dps))),
      F32(DivF64(FoldSeq(AddCloseF64, 0, src.dps), Lit(Len(src.dps)))) }

\* C10 (as stated): EMA and Bollinger: when the open candle revised by
\* on_insert_trades is the seed candle (the N-th accepted candle), the revision
\* updates the output entry at that key to the simple average of the N closes
\* including the revised close.
C10_SeedCandleRevised ==
    /\ (kind = "EMA" /\ Len(source.dps) = EMA_PERIOD) =>
          \A sh \in Shapes, old \in OldLens(source) :
              LET seeded == EMA_rebuild_from_source(source)
                  after  == EMA_on_insert_trades(seeded, old, Revised(source, sh))
              IN  /\ OpenKey(source) \in DOMAIN after.data
                  /\ after.data[OpenKey(source)] \in SimpleAverages(Revised(source, sh))
    /\ (kind = "Bollinger" /\ Len(source.dps) = BB_PERIOD) =>
          \A sh \in Shapes :
              LET seeded == BB_rebuild_from_source(source)
                  after  == BB_on_insert_trades(seeded, Revised(source, sh))
              IN  /\ OpenKey(source) \in DOMAIN after.data
                  /\ after.data[OpenKey(source)].middle \in SimpleAverages(Revised(source, sh))


(***************************************************************************)
(* RSI: finalized averages and the tentative value (C11, C12)              *)
(***************************************************************************)
\* C11 (as stated): RSI: an open-candle event handled by on_insert_trades, be
\* the open candle already ingested or the first appearance of a new period,
\* never changes finalized_avg_gain or finalized_avg_loss.
C11_RSITradesKeepFinalized ==
    kind = "RSI" =>
        LET after == RSI_on_insert_trades(rsi, source)
        IN  /\ after.finalized_avg_gain = rsi.finalized_avg_gain
            /\ after.finalized_avg_loss = rsi.finalized_avg_loss

\* the part of C11 about an open candle that is already ingested
C11_IngestedPart ==
    (kind = "RSI" /\ source.dps # << >> /\ rsi.last_time = Some(OpenKey(source))) =>
        LET after == RSI_on_insert_trades(rsi, source)
        IN  /\ after.finalized_avg_gain = rsi.finalized_avg_gain
            /\ after.finalized_avg_loss = rsi.finalized_avg_loss

\* C12 (as stated): RSI: after on_insert_trades revises the open candle at key k
\* to close c, the seed being established by the candles before k, output[k] is
\* the value rebuild_from_source would store at k for a source in which candle k
\* has close c (one Wilder step from the averages finalized through the candle
\* preceding k, with change = c minus the close of that candle).
C12_RSITentativeAsIfFinal ==
    (kind = "RSI" /\ Len(source.dps) > RSI_PERIOD) =>
        \A sh \in Shapes :
            LET ingested == RSI_rebuild_from_source(source)
                after    == RSI_on_insert_trades(ingested, Revised(source, sh))
            IN  MapGet(after.data, OpenKey(source))
                    = MapGet(RSI_rebuild_from_source(Revised(source, sh)).data, OpenKey(source))


(***************************************************************************)
(* Bollinger revision (C13)                                                *)
(***************************************************************************)
\* the last n entries of a history buffer (all of it when it is shorter)
LastN(h, n) == IF Len(h) <= n THEN h ELSE SubSeq(h, Len(h) - n + 1, Len(h))

\* f64 sum and f64 sum of squares of a sequence of f32 closes
AddValF64(acc, v) == AddF64(acc, v)
AddSqF64(acc, v) == AddF64(acc, MulF64(v, v))
SumF64(h) == FoldSeq(AddValF64, 0, h)
SumSqF64(h) == FoldSeq(AddSqF64, 0, h)

\* the standard deviation of a full window, from its own sums
WindowStdDev(w) ==
    LET mean     == DivF64(SumF64(w), Lit(Len(w)))
        mean_sq  == DivF64(SumSqF64(w), Lit(Len(w)))
        variance == SubF64(mean_sq, MulF64(mean, mean))
    IN  F32(SqrtF64(IF variance > 0 THEN variance ELSE 0))

DeltaKline(t, d) ==
    [time |-> t, close |-> Lit(11),
     buy  |-> IF d >= 0 THEN Lit(d) ELSE 0,
     sell |-> IF d >= 0 THEN 0 ELSE Lit(-d)]

\* the source of the worked example: deltas 5, -2, 3 at keys 1, 2, 3, and the
\* same source with the last delta revised to 10
ExampleDeltas ==
    [basis |-> "TimeBased",
     dps   |-> << DeltaKline(1, 5), DeltaKline(2, -2), DeltaKline(3, 3) >>]
ExampleDeltasRevised ==
    [basis |-> "TimeBased",
     dps   |-> << DeltaKline(1, 5), DeltaKline(2, -2), DeltaKline(3, 10) >>]

\* the cumulative value stored before key k (0.0 when there is none)
CumulativeBefore(s, k) ==
    LET p == KeyBefore(DOMAIN s.cumulative_data, k)
    IN  IF IsSome(p) THEN s.cumulative_data[Unwrap(p)] ELSE 0

\* C14: Cumulative Delta: when on_insert_trades revises the delta of the open
\* candle at key k to new_delta, cumulative[k] becomes cumulative[prev_key] +
\* new_delta, the old delta contributes to no stored value, and the entries at
\* the keys before k are unchanged; deltas [5,-2,3] give [5,3,6] and revising
\* the last one to 10 gives [5,3,13].
C14_CDRevision ==
    /\ (/\ kind = "CumulativeDelta"
        /\ source.dps # << >>
        /\ OpenKey(source) \in DOMAIN cd.per_candle_delta
        /\ OpenKey(source) >= UnwrapOr(cd.last_time, 0)) =>
          LET k         == OpenKey(source)
              new_delta == Delta(source.dps[Len(source.dps)])
              after     == CD_on_insert_trades(cd, source)
          IN  /\ after.per_candle_delta = MapInsert(cd.per_candle_delta, k, new_delta)
              /\ after.cumulative_data[k] = F32(AddF64(CumulativeBefore(cd, k), new_delta))
              /\ \A j \in DOMAIN cd.cumulative_data :
                    j < k => after.cumulative_data[j] = cd.cumulative_data[j]
              /\ {j \in DOMAIN after.cumulative_data : j < k}
                    = {j \in DOMAIN cd.cumulative_data : j < k}
              /\ \A sh \in Shapes :
                    CD_on_insert_trades(
                        [cd EXCEPT !.per_candle_delta = MapInsert(@, k, Delta(Kline(k, sh)))],
                        source).cumulative_data = after.cumulative_data
    /\ CD_rebuild_from_source(ExampleDeltas).cumulative_data
          = (1 :> Lit(5)) @@ (2 :> Lit(3)) @@ (3 :> Lit(6))
    /\ CD_incremental(ExampleDeltas).cumulative_data
          = (1 :> Lit(5)) @@ (2 :> Lit(3)) @@ (3 :> Lit(6))
    /\ CD_on_insert_trades(CD_rebuild_from_source(ExampleDeltas),
                           ExampleDeltasRevised).cumulative_data
          = (1 :> Lit(5)) @@ (2 :> Lit(3)) @@ (3 :> Lit(13))

\* C14 happens: on_insert_trades has just revised the stored delta of the open
\* candle of an engine holding an earlier candle, and the entry at k is the
\* entry before it plus a delta other than the one the entry held before
C14_Witness ==
    /\ kind = "CumulativeDelta"
    /\ last_call.op = "trades"
    /\ Len(source.dps) >= 2
    /\ OpenKey(source) \in DOMAIN cd.cumulative_data
    /\ IsSome(KeyBefore(DOMAIN cd.cumulative_data, OpenKey(source)))
    /\ cd.per_candle_delta[OpenKey(source)] = Delta(source.dps[Len(source.dps)])
    /\ cd.cumulative_data[OpenKey(source)]
          = F32(AddF64(CumulativeBefore(cd, OpenKey(source)),
                       Delta(source.dps[Len(source.dps)])))
    /\ cd.cumulative_data[OpenKey(source)]
          # CD_rebuild_from_source(
                [source EXCEPT !.dps = SubSeq(@, 1, Len(@) - 1)]).cumulative_data[
                    Unwrap(PrecedingKey(source))]


\* the stored deltas over the given keys added up in key order, in f64 as
\* rebuild_from_source and recalculate_cumulative_from accumulate them
RECURSIVE SumDeltasF64(_, _)
SumDeltasF64(s, keys) ==
    IF keys = {} THEN 0
    ELSE LET last == CHOOSE k \in keys : \A j \in keys : j <= k
         IN  AddF64(SumDeltasF64(s, keys \ {last}), s.per_candle_delta[last])

\* C15: Cumulative Delta: in every state reachable through rebuild_from_source,
\* on_insert_klines and on_insert_trades, for every stored key k,
\* cumulative_data[k] is the sum of the stored per-candle deltas over the
\* stored keys up to and including k (the f64 sum, stored as f32).
C15_CDPrefixSum ==
    kind = "CumulativeDelta" =>
        /\ DOMAIN cd.cumulative_data = DOMAIN cd.per_candle_delta
        /\ \A k \in DOMAIN cd.cumulative_data :
              cd.cumulative_data[k]
                  = F32(SumDeltasF64(cd, {j \in DOMAIN cd.per_candle_delta : j <= k}))

\* the part of C15 that does hold: every entry continues the entry before it
\* by its own stored delta, or is the running f64 sum of a longer stretch
C15_StructuralPart ==
    kind = "CumulativeDelta" =>
        /\ DOMAIN cd.cumulative_data = DOMAIN cd.per_candle_delta
        /\ \A k \in DOMAIN cd.cumulative_data :
              \E start \in {j \in DOMAIN cd.cumulative_data : j <= k} :
                  cd.cumulative_data[k]
                      = F32(AddF64(CumulativeBefore(cd, start),
                                   SumDeltasF64(cd, {j \in DOMAIN cd.per_candle_delta :
                                                        start <= j /\ j <= k})))


(***************************************************************************)
(* SMA window and EMA seed (C16, C17)                                      *)
(***************************************************************************)
\* a candle with the given close
CloseKline(t, c) == [time |-> t, close |-> Lit(c), buy |-> Lit(1), sell |-> 0]

\* the source of the worked examples: closes 1, 2, 3, 4 at keys 1, 2, 3, 4
ExampleCloses ==
    [basis |-> "TimeBased",
     dps   |-> << CloseKline(1, 1), CloseKline(2, 2), CloseKline(3, 3), CloseKline(4, 4) >>]

\* the closes of candles i-n+1 .. i of the source
WindowCloses(src, i, n) == [j \in 1..n |-> Close(src.dps[i - n + j])]

\* the mean of a window of closes: the f64 sum over SMA_PERIOD, stored as f32
SMA_window_mean(w) == F32(DivF64(SumF64(w), Lit(SMA_PERIOD)))

\* C16: SMA: after the closes c1..cm are accepted in key order through
\* on_insert_klines, the first N-1 keys have no output entry and the entry at
\* the i-th key, i >= N, is (c(i-N+1) + ... + c(i)) / N; period 3 with closes
\* [1,2,3,4] gives 2.0 at the third key and 3.0 at the fourth.
C16_SMAWindow ==
    /\ (kind = "SMA" /\ StrictlyIncreasing(source)) =>
          LET data == SMA_incremental(source).data
          IN  \A i \in 1..Len(source.dps) :
                  LET key == source.dps[i].time
                  IN  IF i < SMA_PERIOD
                      THEN key \notin DOMAIN data
                      ELSE /\ key \in DOMAIN data
                           /\ data[key] = SMA_window_mean(WindowCloses(source, i, SMA_PERIOD))
    /\ SMA_PERIOD = 3 =>
          SMA_incremental(ExampleCloses).data = (3 :> Lit(2)) @@ (4 :> Lit(3))

\* C16 happens: the engine has taken more than N closes through
\* on_insert_klines alone, the last one just now, and the window has moved:
\* the last entry is not the mean of the first N closes
C16_Witness ==
    /\ kind = "SMA"
    /\ last_call.op = "klines"
    /\ StrictlyIncreasing(source)
    /\ Len(source.dps) > SMA_PERIOD
    /\ sma = SMA_incremental(source)
    /\ sma.data[OpenKey(source)] # SMA_window_mean(WindowCloses(source, SMA_PERIOD, SMA_PERIOD))
    /\ Cardinality(DOMAIN sma.data) = Len(source.dps) - SMA_PERIOD + 1


\* the average rebuild_from_source seeds with: the f32 sum of the first
\* EMA_PERIOD closes over EMA_PERIOD
EMA_seed(src) ==
    DivF32(FoldSeq(AddCloseF32, 0, SubSeq(src.dps, 1, EMA_PERIOD)), Lit(EMA_PERIOD))

\* C17: EMA: with period N and multiplier 2/(N+1), rebuild_from_source on the
\* closes c1..cm yields no entry for the first N-1 keys, (c1+...+cN)/N at the
\* N-th key, and at every later key (close - previous entry) * multiplier +
\* previous entry; period 3 with closes [1,2,3,4] gives 2.0 then 3.0.
C17_EMASeedAndRecurrence ==
    /\ EMA_multiplier = DivF32(Lit(2), Lit(EMA_PERIOD + 1))
    /\ kind = "EMA" =>
          LET data == EMA_rebuild_from_source(source).data
          IN  \A i \in 1..Len(source.dps) :
                  LET key == SourceKey(source, i)
                  IN  IF i < EMA_PERIOD
                      THEN key \notin DOMAIN data
                      ELSE /\ key \in DOMAIN data
                           /\ data[key] =
                                 IF i = EMA_PERIOD
                                 THEN EMA_seed(source)
                                 ELSE LET prev == data[SourceKey(source, i - 1)]
                                      IN  AddF32(MulF32(SubF32(Close(source.dps[i]), prev),
                                                        EMA_multiplier), prev)
    /\ EMA_PERIOD = 3 =>
          /\ EMA_multiplier = One \div 2
          /\ EMA_rebuild_from_source(ExampleCloses).data = (3 :> Lit(2)) @@ (4 :> Lit(3))

\* C17 happens: rebuild_from_source has just run on more than N candles, and
\* the recurrence has moved the last entry away from the seed
C17_Witness ==
    /\ kind = "EMA"
    /\ last_call.op = "rebuild"
    /\ Len(source.dps) > EMA_PERIOD
    /\ ema = EMA_rebuild_from_source(source)
    /\ SourceKey(source, EMA_PERIOD) \in DOMAIN ema.data
    /\ ema.data[SourceKey(source, EMA_PERIOD)] = EMA_seed(source)
    /\ ema.data[OpenKey(source)] # EMA_seed(source)


(***************************************************************************)
(* RSI seed and zero-loss boundary (C18, C19)                              *)
(***************************************************************************)
\* the i-th price change of the source: close of candle i+1 less close of candle i
PriceChange(src, i) == RSI_change(Close(src.dps[i + 1]), Close(src.dps[i]))

\* the f64 sums of the gains and of the losses of the first n price changes
RECURSIVE SumGains(_, _)
SumGains(src, n) ==
    IF n = 0 THEN 0 ELSE AddF64(SumGains(src, n - 1), RSI_gain(PriceChange(src, n)))

RECURSIVE SumLosses(_, _)
SumLosses(src, n) ==
    IF n = 0 THEN 0 ELSE AddF64(SumLosses(src, n - 1), RSI_loss(PriceChange(src, n)))

\* C18 (as stated): RSI: with period N the seed averages are finalized when the
\* N-th price change (the (N+1)-th candle, not the N-th) has been accumulated,
\* they are the sum of the first N gains over N and the sum of the first N
\* losses over N, and there is no output entry before that candle.
C18_RSISeed ==
    kind = "RSI" =>
        LET s == RSI_rebuild_from_source(source)
            n == Len(source.dps)
        IN  /\ n <= RSI_PERIOD =>
                  /\ s.finalized_avg_gain = None
                  /\ s.finalized_avg_loss = None
                  /\ s.data = EmptyMap
            /\ n = RSI_PERIOD + 1 =>
                  /\ s.finalized_avg_gain
                        = Some(DivF64(SumGains(source, RSI_PERIOD), Lit(RSI_PERIOD)))
                  /\ s.finalized_avg_loss
                        = Some(DivF64(SumLosses(source, RSI_PERIOD), Lit(RSI_PERIOD)))
                  /\ DOMAIN s.data = {OpenKey(source)}

\* what the code does instead: the averages are finalized at the N-th candle,
\* from the N-1 price changes seen so far, still divided by N, and the first
\* output entry is at the N-th key
C18_SeedAtNthCandle ==
    kind = "RSI" =>
        LET s == RSI_rebuild_from_source(source)
            n == Len(source.dps)
        IN  /\ n < RSI_PERIOD =>
                  /\ s.finalized_avg_gain = None
                  /\ s.finalized_avg_loss = None
                  /\ s.data = EmptyMap
            /\ n = RSI_PERIOD =>
                  /\ s.finalized_avg_gain
                        = Some(DivF64(SumGains(source, RSI_PERIOD - 1), Lit(RSI_PERIOD)))
                  /\ s.finalized_avg_loss
                        = Some(DivF64(SumLosses(source, RSI_PERIOD - 1), Lit(RSI_PERIOD)))
                  /\ DOMAIN s.data = {OpenKey(source)}


\* the divisors the RSI expression evaluates for the given averages
RSI_divisors(avg_gain, avg_loss) ==
    IF avg_loss = 0 THEN {}
    ELSE {avg_loss, AddF64(Lit(1), DivF64(avg_gain, avg_loss))}

\* the tentative average loss update_current_candle computes for a close
RSI_tentative_loss(s, close) ==
    RSI_wilder(Unwrap(s.finalized_avg_loss),
               RSI_loss(RSI_change(close, Unwrap(s.last_close))))

RSI_tentative_gain(s, close) ==
    RSI_wilder(Unwrap(s.finalized_avg_gain),
               RSI_gain(RSI_change(close, Unwrap(s.last_close))))

\* the engine has a seed and the open candle of the source is the one it
\* ingested last, so on_insert_trades revises it
RSI_revises(s, src) ==
    /\ src.dps # << >>
    /\ s.last_time = Some(OpenKey(src))
    /\ IsSome(s.last_close)
    /\ IsSome(s.finalized_avg_gain)
    /\ IsSome(s.finalized_avg_loss)

\* C19: RSI: whenever the finalized or the tentative average loss is 0 (all
\* changes over the seed window gains, or average gain 0 as well), the RSI
\* stored in the output is exactly 100, and no division by zero is evaluated.
C19_RSIZeroLoss ==
    kind = "RSI" =>
        /\ \A kline \in AnyKline :
              LET after == RSI_on_insert_klines(rsi, << kline >>)
              IN  (/\ after.last_time = Some(kline.time)
                   /\ rsi.last_time # Some(kline.time)
                   /\ IsSome(after.finalized_avg_gain)
                   /\ IsSome(after.finalized_avg_loss)) =>
                      /\ 0 \notin RSI_divisors(Unwrap(after.finalized_avg_gain),
                                               Unwrap(after.finalized_avg_loss))
                      /\ after.finalized_avg_loss = Some(0) =>
                             MapGet(after.data, kline.time) = Some(Lit(100))
        /\ LET built == RSI_rebuild_from_source(source)
           IN  (source.dps # << >> /\ built.finalized_avg_loss = Some(0)) =>
                   MapGet(built.data, OpenKey(source)) = Some(Lit(100))
        /\ RSI_revises(rsi, source) =>
              LET close == OpenClose(source)
                  after == RSI_on_insert_trades(rsi, source)
              IN  /\ 0 \notin RSI_divisors(RSI_tentative_gain(rsi, close),
                                           RSI_tentative_loss(rsi, close))
                  /\ RSI_tentative_loss(rsi, close) = 0 =>
                         MapGet(after.data, OpenKey(source)) = Some(Lit(100))

\* C19 happens: on_insert_trades has just revised the open candle of a seeded
\* engine that has seen neither a gain nor a loss, the tentative average loss
\* is 0, and the entry at the open key is 100
C19_Witness ==
    /\ kind = "RSI"
    /\ last_call.op = "trades"
    /\ RSI_revises(rsi, source)
    /\ rsi.finalized_avg_gain = Some(0)
    /\ RSI_tentative_gain(rsi, OpenClose(source)) = 0
    /\ RSI_tentative_loss(rsi, OpenClose(source)) = 0
    /\ MapGet(rsi.data, OpenKey(source)) = Some(Lit(100))


(***************************************************************************)
(* Bollinger band ordering (C20)                                           *)
(***************************************************************************)
\* the accumulator with its rolling f64 sums off by e1 and e2 units of the last
\* place, as cancellation in the running subtract-and-add leaves them
BB_rounded_off(s, e1, e2) ==
    [s EXCEPT !.rolling_sum = @ + e1, !.rolling_sum_sq = @ + e2]

\* C20: Bollinger: in every state reachable through rebuild_from_source,
\* on_insert_klines and on_insert_trades, every entry of the output series
\* satisfies lower <= middle <= upper: the variance is clamped to >= 0 before
\* the square root, so the half-width of the band is never negative, also
\* when rounding in the rolling sums leaves mean_sq below mean * mean.
C20_BBBandOrdering ==
    kind = "Bollinger" =>
        /\ \A k \in DOMAIN bb.data :
              /\ bb.data[k].lower <= bb.data[k].middle
              /\ bb.data[k].middle <= bb.data[k].upper
        /\ \A e1, e2 \in (-MaxUlp)..MaxUlp :
              LET std_dev == BB_std_dev(BB_rounded_off(bb, e1, e2))
              IN  IsSome(std_dev) =>
                      /\ Unwrap(std_dev) >= 0
                      /\ \A k \in DOMAIN bb.data :
                            LET band == BandValue(bb.data[k].middle, Unwrap(std_dev))
                            IN  band.lower <= band.middle /\ band.middle <= band.upper

\* C20 happens: on_insert_trades has just revised the open candle and its
\* entry is a band of positive width, next to an earlier entry
C20_Witness ==
    /\ kind = "Bollinger"
    /\ last_call.op = "trades"
    /\ source.dps # << >>
    /\ OpenKey(source) \in DOMAIN bb.data
    /\ Cardinality(DOMAIN bb.data) >= 2
    /\ bb.data[OpenKey(source)].lower < bb.data[OpenKey(source)].middle
    /\ bb.data[OpenKey(source)].middle < bb.data[OpenKey(source)].upper


(***************************************************************************)
(* Replay through on_insert_trades (C21)                                   *)
(***************************************************************************)
\* the first i candles of the source
Prefix(src, i) == [src EXCEPT !.dps = SubSeq(@, 1, i)]

\* a shape other than the one of the last candle of the source
OtherShape(src) ==
    CHOOSE sh \in Shapes : Kline(src.dps[Len(src.dps)].time, sh) # src.dps[Len(src.dps)]

\* the engine after every change of the source was delivered by one
\* on_insert_trades call: each candle is appended in another shape, delivered,
\* revised in place to the shape it has in src, and delivered again
RECURSIVE SMA_trades_replay(_, _, _)
SMA_trades_replay(s, src, i) ==
    IF i > Len(src.dps) THEN s
    ELSE LET appended == Revised(Prefix(src, i), OtherShape(Prefix(src, i)))
             opened   == SMA_on_insert_trades(s, appended)
             revised  == SMA_on_insert_trades(opened, Prefix(src, i))
         IN  SMA_trades_replay(revised, src, i + 1)

RECURSIVE CD_trades_replay(_, _, _)
CD_trades_replay(s, src, i) ==
    IF i > Len(src.dps) THEN s
    ELSE LET appended == Revised(Prefix(src, i), OtherShape(Prefix(src, i)))
             opened   == CD_on_insert_trades(s, appended)
             revised  == CD_on_insert_trades(opened, Prefix(src, i))
         IN  CD_trades_replay(revised, src, i + 1)

\* C21 (as stated): SMA and Cumulative Delta: after any sequence in which the
\* last candle of the source is appended or revised in place and each change
\* is delivered by one on_insert_trades call, the output series is the one
\* rebuild_from_source produces on the current source.
C21_TradesReplayOracle ==
    /\ kind = "SMA" =>
          SMA_trades_replay(SMA_new, source, 1).data = SMA_rebuild_from_source(source).data
    /\ kind = "CumulativeDelta" =>
          CD_trades_replay(CD_new, source, 1).cumulative_data
              = CD_rebuild_from_source(source).cumulative_data

\* the SMA half of C21, which holds
C21_SMAPart ==
    kind = "SMA" =>
        SMA_trades_replay(SMA_new, source, 1).data = SMA_rebuild_from_source(source).data


(***************************************************************************)
(* Insufficient history is absence (C22)                                   *)
(***************************************************************************)
\* the number of candles of the source with keys up to and including k: every
\* candle an engine accepts is one of them
CandlesUpTo(src, k) == Cardinality({i \in 1..Len(src.dps) : SourceKey(src, i) <= k})

\* SMA: an entry at k needs SMA_PERIOD candles up to k and a full window
C22_SMAPart ==
    kind = "SMA" =>
        /\ \A k \in DOMAIN sma.data : CandlesUpTo(source, k) >= SMA_PERIOD
        /\ sma.data # EmptyMap => Len(sma.history_closes) >= SMA_PERIOD

\* EMA: an entry at k needs EMA_PERIOD candles up to k
C22_EMAPart ==
    kind = "EMA" =>
        /\ \A k \in DOMAIN ema.data : CandlesUpTo(source, k) >= EMA_PERIOD
        /\ ema.data # EmptyMap => ema.history_len >= EMA_PERIOD

\* Bollinger: an entry at k needs BB_PERIOD candles up to k, and a call inserts
\* an entry only when it leaves both the seed and a full window
C22_BBPart ==
    kind = "Bollinger" =>
        /\ \A k \in DOMAIN bb.data : CandlesUpTo(source, k) >= BB_PERIOD
        /\ bb.data # EmptyMap => (IsSome(bb.last_ema) /\ Len(bb.history_closes) >= BB_PERIOD)
        /\ \A kline \in AnyKline :
              LET after == BB_on_insert_klines(bb, << kline >>)
              IN  after.data # bb.data =>
                      (IsSome(after.last_ema) /\ Len(after.history_closes) >= BB_PERIOD)
        /\ LET after == BB_on_insert_trades(bb, source)
           IN  after.data # bb.data =>
                   (IsSome(after.last_ema) /\ Len(after.history_closes) >= BB_PERIOD)

\* C22 (as stated): SMA, EMA and Bollinger: in every reachable state an output
\* entry exists at a key only if at least N candles with keys up to and
\* including that key have been accepted; Bollinger inserts an entry only when
\* the EMA seed exists and the history holds at least N closes; no entry is
\* ever stored for an earlier key.
C22_InsufficientHistoryIsAbsence == C22_SMAPart /\ C22_EMAPart /\ C22_BBPart


(***************************************************************************)
(* Rebuild depends on the source alone (C23)                               *)
(***************************************************************************)
\* C23: every engine: the output series and the accumulator after
\* rebuild_from_source(source) depend on the source only, not on the state of
\* the engine before the call; calling it twice on the same source gives the
\* state calling it once gives, from any reachable prior state.
C23_RebuildIdempotent ==
    /\ kind = "SMA" =>
          LET once == SMA_rebuild_from(sma, source)
          IN  /\ once = SMA_rebuild_from(SMA_new, source)
              /\ SMA_rebuild_from(once, source) = once
    /\ kind = "EMA" =>
          LET once == EMA_rebuild_from(ema, source)
          IN  /\ once = EMA_rebuild_from(EMA_new, source)
              /\ EMA_rebuild_from(once, source) = once
    /\ kind = "Bollinger" =>
          LET once == BB_rebuild_from(bb, source)
          IN  /\ once = BB_rebuild_from(BB_new, source)
              /\ BB_rebuild_from(once, source) = once
    /\ kind = "RSI" =>
          LET once == RSI_rebuild_from(rsi, source)
          IN  /\ once = RSI_rebuild_from(RSI_new, source)
              /\ RSI_rebuild_from(once, source) = once
    /\ kind = "CumulativeDelta" =>
          LET once == CD_rebuild_from(cd, source)
          IN  /\ once = CD_rebuild_from(CD_new, source)
              /\ CD_rebuild_from(once, source) = once

\* C23 happens: rebuild_from_source has just run on an RSI engine and left a
\* seeded state with output, which a second rebuild would have to discard
C23_Witness ==
    /\ kind = "RSI"
    /\ last_call.op = "rebuild"
    /\ rsi.candle_count > RSI_PERIOD
    /\ rsi.data # EmptyMap
    /\ rsi = RSI_rebuild_from(RSI_new, source)


(***************************************************************************)
(* Structural change is rebuild (C24)                                      *)
(***************************************************************************)
\* C24: every engine: on_ticksize_change(source) and on_basis_change(source)
\* leave the engine in exactly the state rebuild_from_source(source) produces
\* from the same prior state, and nothing of the accumulator or the output
\* series before the call is carried over.
C24_StructuralChangeIsRebuild ==
    /\ kind = "SMA" =>
          /\ SMA_on_ticksize_change(sma, source) = SMA_rebuild_from(sma, source)
          /\ SMA_on_basis_change(sma, source) = SMA_rebuild_from(sma, source)
          /\ SMA_on_ticksize_change(sma, source) = SMA_rebuild_from_source(source)
          /\ SMA_on_basis_change(sma, source) = SMA_rebuild_from_source(source)
    /\ kind = "EMA" =>
          /\ EMA_on_ticksize_change(ema, source) = EMA_rebuild_from(ema, source)
          /\ EMA_on_basis_change(ema, source) = EMA_rebuild_from(ema, source)
          /\ EMA_on_ticksize_change(ema, source) = EMA_rebuild_from_source(source)
          /\ EMA_on_basis_change(ema, source) = EMA_rebuild_from_source(source)
    /\ kind = "Bollinger" =>
          /\ BB_on_ticksize_change(bb, source) = BB_rebuild_from(bb, source)
          /\ BB_on_basis_change(bb, source) = BB_rebuild_from(bb, source)
          /\ BB_on_ticksize_change(bb, source) = BB_rebuild_from_source(source)
          /\ BB_on_basis_change(bb, source) = BB_rebuild_from_source(source)
    /\ kind = "RSI" =>
          /\ RSI_on_ticksize_change(rsi, source) = RSI_rebuild_from(rsi, source)
          /\ RSI_on_basis_change(rsi, source) = RSI_rebuild_from(rsi, source)
          /\ RSI_on_ticksize_change(rsi, source) = RSI_rebuild_from_source(source)
          /\ RSI_on_basis_change(rsi, source) = RSI_rebuild_from_source(source)
    /\ kind = "CumulativeDelta" =>
          /\ CD_on_ticksize_change(cd, source) = CD_rebuild_from(cd, source)
          /\ CD_on_basis_change(cd, source) = CD_rebuild_from(cd, source)
          /\ CD_on_ticksize_change(cd, source) = CD_rebuild_from_source(source)
          /\ CD_on_basis_change(cd, source) = CD_rebuild_from_source(source)

\* C24 happens: on_ticksize_change has just run on an SMA engine over a source
\* longer than the window, and the engine holds the rebuilt series
C24_Witness ==
    /\ kind = "SMA"
    /\ last_call.op = "ticksize"
    /\ Len(source.dps) > SMA_PERIOD
    /\ sma = SMA_rebuild_from_source(source)
    /\ Cardinality(DOMAIN sma.data) >= 2


(***************************************************************************)
(* No call panics (C25)                                                    *)
(***************************************************************************)
\* the values of last_ema on which the EMA rebuild loop over src evaluates
\* last_ema.unwrap(): those it holds on entering an iteration with count at
\* EMA_PERIOD
EMA_rebuild_unwraps(src) ==
    { EMA_rebuild_loop([eng |-> EMA_new, initial_sum |-> 0, count |-> 0],
                       Prefix(src, i - 1), 1).eng.last_ema :
        i \in { j \in 1..Len(src.dps) : j > EMA_PERIOD } }

\* the same for the Bollinger rebuild loop
BB_rebuild_unwraps(src) ==
    { BB_rebuild_loop([eng |-> BB_new, initial_sum |-> 0, count |-> 0],
                      Prefix(src, i - 1), 1).eng.last_ema :
        i \in { j \in 1..Len(src.dps) : j > BB_PERIOD } }

\* the 0-based index history_closes[len - 1 - N] that update_rolling reads
\* when a close is pushed onto a history of the given length, with the length
\* after the push; nothing when the push does not overfill the window
EvictedIndex(history_len, period) ==
    LET len == history_len + 1
    IN  IF len > period THEN {[index |-> len - 1 - period, len |-> len]} ELSE {}

\* every index read is inside the vector
InBounds(sites) == \A site \in sites : 0 <= site.index /\ site.index < site.len

\* C25: every engine, every finite sequence of rebuild_from_source,
\* on_insert_klines, on_insert_trades and structural-change calls (empty
\* sources, duplicate and out-of-order keys included): no call panics;
\* last_ema.unwrap() in the EMA and Bollinger rebuild loops is reached only
\* with last_ema set, and history_closes[len - 1 - N] is read only when len > N.
C25_NoPanic ==
    /\ kind = "EMA" => None \notin EMA_rebuild_unwraps(source)
    /\ kind = "Bollinger" =>
          /\ None \notin BB_rebuild_unwraps(source)
          /\ InBounds(EvictedIndex(Len(bb.history_closes), BB_PERIOD))
          /\ \A i \in 0..Len(source.dps) :
                InBounds(EvictedIndex(
                    Len(BB_rebuild_from_source(Prefix(source, i)).history_closes), BB_PERIOD))
    /\ kind = "SMA" =>
          /\ InBounds(EvictedIndex(Len(sma.history_closes), SMA_PERIOD))
          /\ \A i \in 0..Len(source.dps) :
                InBounds(EvictedIndex(
                    Len(SMA_rebuild_from_source(Prefix(source, i)).history_closes), SMA_PERIOD))

\* C25 happens: rebuild_from_source has just run on an EMA source longer than
\* the period, so the loop has evaluated last_ema.unwrap()
C25_Witness ==
    /\ kind = "EMA"
    /\ last_call.op = "rebuild"
    /\ Len(source.dps) > EMA_PERIOD
    /\ EMA_rebuild_unwraps(source) # {}
    /\ ema = EMA_rebuild_from_source(source)


(***************************************************************************)
(* History buffer (C30)                                                    *)
(***************************************************************************)
\* C30 (as stated): SMA and Bollinger: history_closes never holds more than N
\* closes in any reachable state, however many candles are accepted.
C30_BoundedHistory ==
    /\ kind = "SMA" => Len(sma.history_closes) <= SMA_PERIOD
    /\ kind = "Bollinger" => Len(bb.history_closes) <= BB_PERIOD

\* what the code keeps instead: one close per accepted candle since the last
\* rebuild, never more than the source holds
C30_HistoryWithinSource ==
    /\ kind = "SMA" => Len(sma.history_closes) <= Len(source.dps)
    /\ kind = "Bollinger" => Len(bb.history_closes) <= Len(source.dps)


(***************************************************************************)
(* Cache invalidation and the throttle (C26, C27, C28, C29)                *)
(***************************************************************************)
\* the engines that own a last_cache_clear timestamp
Throttled == {"EMA", "Bollinger", "RSI", "CumulativeDelta"}
\* the calls that deliver candles, and the calls that rebuild
IngestionOps == {"klines", "trades"}
RebuildOps == {"rebuild", "ticksize", "basis"}

\* what one step of a throttled engine does to the cache and its timestamp
ThrottledStep ==
    kind \in Throttled =>
       /\ (last_call'.op \in IngestionOps /\ last_clear'.in_call) =>
             /\ now - last_cache_clear >= CACHE_THROTTLE_MS
             /\ now - last_clear.at >= CACHE_THROTTLE_MS
       /\ (last_call'.op \in IngestionOps \cup RebuildOps /\ last_clear'.in_call) =>
             /\ last_cache_clear' = now
             /\ cache' = "empty"
       /\ (last_call'.op \in IngestionOps /\ ~last_clear'.in_call) =>
             UNCHANGED << cache, last_cache_clear >>

\* C26: EMA, Bollinger, RSI, Cumulative Delta: an on_insert_trades or
\* on_insert_klines call clears the render cache only if at least 200 ms have
\* passed since last_cache_clear; every clear by these calls or by rebuild sets
\* last_cache_clear; so a clear by an ingestion call comes no sooner than
\* 200 ms after the clear before it.
C26_ThrottledInvalidation == [][ThrottledStep]_vars

\* C26 happens: an on_insert_trades call has just cleared the cache of a
\* throttled engine, 200 ms or more into the run, and set last_cache_clear
C26_Witness ==
    /\ kind \in Throttled
    /\ last_call.op = "trades"
    /\ last_clear.in_call
    /\ last_clear.at = now
    /\ now >= CACHE_THROTTLE_MS
    /\ last_cache_clear = now
    /\ cache = "empty"

\* the throttle suppresses: an ingestion call has just returned, less than
\* 200 ms after the last clear, and the drawn cache is still filled
C26_Suppressed ==
    /\ kind \in Throttled
    /\ last_call.op \in IngestionOps
    /\ ~last_clear.in_call
    /\ now > last_cache_clear
    /\ last_cache_clear > 0
    /\ cache = "filled"


\* the runs in which the SMA engine receives revision events only: the source
\* changes and on_insert_trades is called, the clock advances, the chart draws
RevisionCall ==
    /\ Next
    /\ kind = "SMA"
    /\ last_call'.op \in {"append", "revise", "trades"}
    /\ Len(source'.dps) <= TimedMaxLen

NextRevisions == \/ RevisionCall \/ Tick \/ Render

SpecRevisions == Init /\ [][NextRevisions]_vars

\* one step of the SMA engine in those runs, where every clear after
\* construction is made by on_insert_trades: a clear by on_insert_trades comes
\* 200 ms or more after the clear before it
SMAThrottledStep ==
    (/\ kind = "SMA"
     /\ last_call'.op = "trades"
     /\ last_clear'.in_call
     /\ last_clear.at > 0) => now - last_clear.at >= CACHE_THROTTLE_MS

\* C27: revision events delivered to the SMA engine through on_insert_trades
\* invalidate the render cache at most once per 200 ms, however many arrive in
\* that interval.
C27_SMAThrottledInvalidation == [][SMAThrottledStep]_vars


\* one step that rebuilds: the cache has been cleared, at this clock reading,
\* when the call returns
ForcedStep ==
    last_call'.op \in RebuildOps =>
       /\ cache' = "empty"
       /\ last_clear'.in_call
       /\ last_clear'.at = now
       /\ kind \in Throttled => last_cache_clear' = now

\* C28: for every engine, every rebuild_from_source call, and every ticksize
\* or basis change, clears the render cache before it returns, however little
\* time has passed since the previous invalidation.
C28_RebuildForcesInvalidation == [][ForcedStep]_vars

\* C28 happens: a rebuild (or a ticksize or basis change) of an engine that owns
\* a throttle has just cleared the cache 100 ms after construction, inside the
\* 200 ms in which maybe_clear_caches would not have
C28_Witness ==
    /\ kind \in Throttled
    /\ last_call.op \in RebuildOps
    /\ last_clear.in_call
    /\ last_clear.at = now
    /\ now > 0
    /\ now < CACHE_THROTTLE_MS
    /\ cache = "empty"


\* the engines after the call c, computed from the engines and the source
\* before it: the clock, the timestamp and the cache are not read
Computed(c) ==
    CASE c.op = "klines" ->
           << IF kind = "SMA" THEN SMA_on_insert_klines(sma, c.klines) ELSE sma,
              IF kind = "EMA" THEN EMA_on_insert_klines(ema, c.klines) ELSE ema,
              IF kind = "Bollinger" THEN BB_on_insert_klines(bb, c.klines) ELSE bb,
              IF kind = "RSI" THEN RSI_on_insert_klines(rsi, c.klines) ELSE rsi,
              IF kind = "CumulativeDelta" THEN CD_on_insert_klines(cd, c.klines) ELSE cd >>
      [] c.op = "trades" ->
           << IF kind = "SMA" THEN SMA_on_insert_trades(sma, source) ELSE sma,
              IF kind = "EMA" THEN EMA_on_insert_trades(ema, c.old_dp_len, source) ELSE ema,
              IF kind = "Bollinger" THEN BB_on_insert_trades(bb, source) ELSE bb,
              IF kind = "RSI" THEN RSI_on_insert_trades(rsi, source) ELSE rsi,
              IF kind = "CumulativeDelta" THEN CD_on_insert_trades(cd, source) ELSE cd >>
      [] c.op \in RebuildOps ->
           << IF kind = "SMA" THEN SMA_rebuild_from(sma, source) ELSE sma,
              IF kind = "EMA" THEN EMA_rebuild_from(ema, source) ELSE ema,
              IF kind = "Bollinger" THEN BB_rebuild_from(bb, source) ELSE bb,
              IF kind = "RSI" THEN RSI_rebuild_from(rsi, source) ELSE rsi,
              IF kind = "CumulativeDelta" THEN CD_rebuild_from(cd, source) ELSE cd >>
      [] OTHER -> engines

\* one step: output series and accumulators are what the call computes from
\* the engine and the event, whatever the clock reads and whether or not the
\* cache was cleared
ClockFreeStep == engines' = Computed(last_call')

\* C29: two executions that receive the same events at different clock
\* readings, so that the throttle permits a clear in one and suppresses it in
\* the other, have the same output series and accumulator state after every
\* call: each call's result is a function of the engine state and the event
\* alone.
C29_ThrottleDoesNotAffectResults == [][ClockFreeStep]_vars

\* C29 happens: an on_insert_trades call on the RSI engine has returned with the
\* clear suppressed, the drawn cache still filled, and the engine holding the
\* revised close of a second candle
C29_Witness ==
    /\ kind = "RSI"
    /\ last_call.op = "trades"
    /\ ~last_clear.in_call
    /\ cache = "filled"
    /\ now - last_cache_clear < CACHE_THROTTLE_MS
    /\ rsi.candle_count = 2
    /\ rsi = RSI_rebuild_from_source(source)

\* the same call with the clear permitted
C29_Permitted ==
    /\ kind = "RSI"
    /\ last_call.op = "trades"
    /\ last_clear.in_call
    /\ last_clear.at = now
    /\ now >= CACHE_THROTTLE_MS
    /\ rsi.candle_count = 2
    /\ rsi = RSI_rebuild_from_source(source)


(***************************************************************************)
(* The extent query (C31)                                                  *)
(***************************************************************************)
\* least lower and greatest upper over the entries with a key in lo..hi
LeastLower(data, ks) == CHOOSE x \in { data[k].lower : k \in ks } : \A k \in ks : x <= data[k].lower
GreatestUpper(data, ks) == CHOOSE x \in { data[k].upper : k \in ks } : \A k \in ks : data[k].upper <= x
ExtentOf(data, lo, hi) ==
    LET ks == KeysInRange(data, lo, hi)
    IN  IF ks = {} THEN None ELSE Some(<< LeastLower(data, ks), GreatestUpper(data, ks) >>)

\* what y_extents returns in a state, for every visible range
ExtentsRight ==
    kind = "Bollinger" =>
       \A lo \in Keys, hi \in Keys :
          lo <= hi => BB_y_extents(bb.data, lo, hi) = ExtentOf(bb.data, lo, hi)

\* what a y_extents call leaves behind
ExtentStep == last_call'.op = "y_extents" => UNCHANGED << engines, source >>

\* C31: Bollinger y_extents for a visible key range returns None when no output
\* entry has a key in the range, otherwise (least lower, greatest upper) over
\* exactly the entries with a key in the range, and changes neither the output
\* series nor any accumulator field.
C31_ExtentQueryIsPureRead == []ExtentsRight /\ [][ExtentStep]_vars

\* C31 happens: y_extents has been called on a series of two entries with
\* different lower bands, the second lower above the first; one range holds
\* both entries, one holds one, one holds none
C31_Witness ==
    /\ kind = "Bollinger"
    /\ last_call.op = "y_extents"
    /\ \E k1 \in DOMAIN bb.data, k2 \in DOMAIN bb.data :
          /\ k1 < k2
          /\ bb.data[k1].lower < bb.data[k2].lower
          /\ BB_y_extents(bb.data, k1, k2) = Some(<< bb.data[k1].lower, GreatestUpper(bb.data, {k1, k2}) >>)
          /\ BB_y_extents(bb.data, k2, k2) = Some(<< bb.data[k2].lower, bb.data[k2].upper >>)
    /\ \E lo \in Keys : BB_y_extents(bb.data, lo, lo) = None


(***************************************************************************)
(* The indicator kinds (data/src/chart/indicator.rs) (C32, C39)            *)
(***************************************************************************)
Range(seq) == { seq[i] : i \in DOMAIN seq }

\* exchange::adapter::MarketKind, as matched by for_market
MarketKinds == {"Spot", "LinearPerps", "InversePerps"}

\* enum KlineIndicator
KlineIndicator == {"Volume", "OpenInterest", "SMA", "EMA", "Bollinger", "RSI"}

FOR_SPOT == << "Volume", "SMA", "EMA", "Bollinger", "RSI" >>
FOR_PERPS == << "Volume", "OpenInterest", "SMA", "EMA", "Bollinger", "RSI" >>

\* for_market with the two arrays exchanged
for_market_exchanged(market) == IF market = "Spot" THEN FOR_PERPS ELSE FOR_SPOT

\* KlineIndicator::for_market
for_market(market) == IF market = "Spot" THEN FOR_SPOT ELSE FOR_PERPS

\* the call for_market(market) and the slice it returned
MenuCall(market) ==
    [op |-> "for_market", klines |-> << >>, old_dp_len |-> 0,
     market |-> market, returned |-> for_market(market)]

\* the menu of a chart asks which indicators its market offers
ForMarket ==
    /\ \E market \in MarketKinds : last_call' = MenuCall(market)
    /\ NoClearing
    /\ UNCHANGED << kind, source, engines, cache, last_cache_clear, now >>

\* an indicator the menu offered is switched on: its engine is built from the
\* chart's source
Toggle ==
    /\ last_call.op = "for_market"
    /\ kind \in Range(last_call.returned)
    /\ Next
    /\ last_call'.op = "rebuild"

NextMenu == \/ ForMarket \/ Toggle \/ SourceAppend \/ SourceRevise

SpecMenu == Init /\ [][NextMenu]_vars

\* C32: each of the five engines (SMA, EMA, Bollinger, RSI, CumulativeDelta) is
\* a variant of KlineIndicator and is offered by for_market for at least one
\* market kind.
C32_ClosedVariantSet ==
    /\ kind \in KlineIndicator
    /\ \E market \in MarketKinds : kind \in Range(for_market(market))

\* the same for the four engines other than Cumulative Delta
C32_FourEngines == kind # "CumulativeDelta" => C32_ClosedVariantSet

\* C39: every KlineIndicator variant is in FOR_SPOT or FOR_PERPS, so for_market
\* returns it for some market kind; OpenInterest is returned only for the
\* perpetual markets; every spot indicator is also a perps indicator.
C39_MenusCoverVariants ==
    /\ \A v \in KlineIndicator : v \in Range(FOR_SPOT) \cup Range(FOR_PERPS)
    /\ \A v \in KlineIndicator : \E market \in MarketKinds : v \in Range(for_market(market))
    /\ Range(for_market("Spot")) \subseteq Range(for_market("LinearPerps"))
    /\ Range(for_market("Spot")) \subseteq Range(for_market("InversePerps"))
    /\ last_call.op = "for_market" =>
          /\ Range(last_call.returned) \subseteq KlineIndicator
          /\ "OpenInterest" \in Range(last_call.returned) <=>
                last_call.market \in {"LinearPerps", "InversePerps"}

\* C39 happens: for_market has been called for a spot market and returned a
\* slice without OpenInterest
C39_Witness ==
    /\ last_call.op = "for_market"
    /\ last_call.market = "Spot"
    /\ "OpenInterest" \notin Range(last_call.returned)
    /\ Range(last_call.returned) = KlineIndicator \ {"OpenInterest"}

\* and for a perpetual market, with OpenInterest
C39_Perps ==
    /\ last_call.op = "for_market"
    /\ last_call.market = "InversePerps"
    /\ Range(last_call.returned) = KlineIndicator


(***************************************************************************)
(* The rolling sums (C33)                                                  *)
(***************************************************************************)
Plus(acc, v) == acc + v
PlusSquare(acc, v) == acc + v * v
\* the sum, and the sum of squares, of a sequence of closes, in exact arithmetic
ExactSum(h) == FoldSeq(Plus, 0, h)
ExactSumSq(h) == FoldSeq(PlusSquare, 0, h)

\* rolling_sum is the sum of the last min(len, N) history closes
SMA_SumRight(s) == s.rolling_sum = ExactSum(LastN(s.history_closes, SMA_PERIOD))
\* and rolling_sum_sq the sum of their squares
BB_SumsRight(s) ==
    /\ s.rolling_sum = ExactSum(LastN(s.history_closes, BB_PERIOD))
    /\ s.rolling_sum_sq * One = ExactSumSq(LastN(s.history_closes, BB_PERIOD))

\* closes further apart in magnitude than the candles of the runs: 248.0 and
\* 17/256 for the sum, 15.5 and 1.0625 for the sum of squares
SMA_ProbeCloses == { 31 * Pow2(11), 17 }
BB_ProbeCloses == { 31 * Pow2(7), 17 * Pow2(4) }

\* the engine after three more candles closing at v1, v2, v3, the third either
\* a new candle or a revision of the second
SMA_after_closes(s, v1, v2, v3, is_new) ==
    SMA_update_rolling(SMA_update_rolling(SMA_update_rolling(s, v1, TRUE), v2, TRUE), v3, is_new)
BB_after_closes(s, v1, v2, v3, is_new) ==
    BB_update_rolling_stats(
        BB_update_rolling_stats(BB_update_rolling_stats(s, v1, TRUE), v2, TRUE), v3, is_new)

\* the finest float spacing and the greatest magnitude among a set of closes
FinestSpacing(vals) ==
    CHOOSE g \in { Spacing(v, F32_LIMIT) : v \in vals } : \A v \in vals : g <= Spacing(v, F32_LIMIT)
Greatest(vals) == CHOOSE m \in vals : \A v \in vals : v <= m

\* every sum of up to n of the closes is a number an f64 holds exactly
SumsExact(vals, n) ==
    n * Greatest(vals) < F64_LIMIT * FinestSpacing(vals)
\* and so is every square and every sum of up to n of the squares
SquareSumsExact(vals, n) ==
    LET g == FinestSpacing(vals)
    IN  /\ (g * g) % One = 0
        /\ n * ((Greatest(vals) * Greatest(vals)) \div One) < F64_LIMIT * ((g * g) \div One)

\* C33 (as stated): for SMA and Bollinger, in every state reachable by any
\* sequence of rebuild, finalized-candle and revision events, rolling_sum equals
\* the sum of the last min(len, N) entries of history_closes, and Bollinger's
\* rolling_sum_sq the sum of their squares.
C33_RollingSumInvariant ==
    /\ kind = "SMA" =>
          /\ SMA_SumRight(sma)
          /\ \A v1 \in SMA_ProbeCloses, v2 \in SMA_ProbeCloses, v3 \in SMA_ProbeCloses,
                is_new \in BOOLEAN :
                SMA_SumRight(SMA_after_closes(sma, v1, v2, v3, is_new))
    /\ kind = "Bollinger" =>
          /\ BB_SumsRight(bb)
          /\ \A v1 \in BB_ProbeCloses, v2 \in BB_ProbeCloses, v3 \in BB_ProbeCloses,
                is_new \in BOOLEAN :
                BB_SumsRight(BB_after_closes(bb, v1, v2, v3, is_new))

\* C33 (amended): the same, for closes near enough in magnitude that the f64
\* additions and subtractions of update_rolling and update_rolling_stats are
\* exact; in the states the runs reach, and after three further closes chosen
\* from the candles' closes and the wider ones.
C33_RollingSumWhenExact ==
    /\ kind = "SMA" =>
          /\ SMA_SumRight(sma)
          /\ \A v1 \in SMA_ProbeCloses \cup { sh.close : sh \in Shapes },
                v2 \in SMA_ProbeCloses, v3 \in SMA_ProbeCloses, is_new \in BOOLEAN :
                SumsExact(Range(sma.history_closes) \cup {v1, v2, v3}, SMA_PERIOD + 1)
                   => SMA_SumRight(SMA_after_closes(sma, v1, v2, v3, is_new))
    /\ kind = "Bollinger" =>
          /\ BB_SumsRight(bb)
          /\ \A v1 \in BB_ProbeCloses \cup { sh.close : sh \in Shapes },
                v2 \in BB_ProbeCloses, v3 \in BB_ProbeCloses, is_new \in BOOLEAN :
                (/\ SumsExact(Range(bb.history_closes) \cup {v1, v2, v3}, BB_PERIOD + 1)
                 /\ SquareSumsExact(Range(bb.history_closes) \cup {v1, v2, v3}, BB_PERIOD + 1))
                   => BB_SumsRight(BB_after_closes(bb, v1, v2, v3, is_new))

\* C33 happens: a Bollinger engine whose window has slid past the first close
\* has had its open candle revised through on_insert_trades, its sums are those
\* of the last N closes, and three further closes of 15.5 keep them exact
C33_Witness ==
    /\ kind = "Bollinger"
    /\ last_call.op = "trades"
    /\ Len(bb.history_closes) > BB_PERIOD
    /\ bb.history_closes[1] # bb.history_closes[Len(bb.history_closes)]
    /\ BB_SumsRight(bb)
    /\ LET v == 31 * Pow2(7)
           vals == Range(bb.history_closes) \cup {v}
       IN  /\ SumsExact(vals, BB_PERIOD + 1)
           /\ SquareSumsExact(vals, BB_PERIOD + 1)
           /\ BB_SumsRight(BB_after_closes(bb, v, v, v, FALSE))


(***************************************************************************)
(* RSI: the close a new candle is compared with (C34)                      *)
(***************************************************************************)
\* the source after a candle opens behind its last one
Opened(src, sh) ==
    [src EXCEPT !.dps = Append(@, Kline(IF src.basis = "TimeBased" THEN OpenKey(src) + 1
                                          ELSE Len(src.dps), sh))]

\* the averages and seed sums of an RSI engine
RSI_averages(s) ==
    << s.finalized_avg_gain, s.finalized_avg_loss, s.init_gain_sum, s.init_loss_sum >>

\* the engine s, whose open candle is the last of src, is told through
\* on_insert_trades that the candle now closes at sh's close, then that a new
\* candle has opened closing at sh2's close
RSI_revised_then_opened(s, src, sh, sh2) ==
    RSI_on_insert_trades(RSI_on_insert_trades(s, Revised(src, sh)), Opened(Revised(src, sh), sh2))

\* the same with the new candle delivered by on_insert_klines
RSI_revised_then_inserted(s, src, sh, sh2) ==
    LET opened == Opened(Revised(src, sh), sh2)
    IN  RSI_on_insert_klines(RSI_on_insert_trades(s, Revised(src, sh)),
                             << opened.dps[Len(opened.dps)] >>)

\* process_new_candle on s with the revised close as the previous close
RSI_expected_after(s, sh, sh2) ==
    RSI_process_new_candle([s EXCEPT !.last_close = Some(sh.close)], sh2.close)

\* C34: RSI: when a new candle is accepted after the preceding open candle was
\* revised through on_insert_trades, the change fed into the Wilder recurrence
\* (and the seed sums) is the new close minus the preceding candle's most
\* recently revised close, not its first-seen close.
C34_RSIPreviousCloseTracking ==
    (/\ kind = "RSI"
     /\ source.dps # << >>
     /\ rsi.last_time = Some(OpenKey(source))
     /\ IsSome(rsi.last_close)) =>
       \A sh \in Shapes, sh2 \in Shapes :
          /\ RSI_averages(RSI_revised_then_opened(rsi, source, sh, sh2))
                = RSI_averages(RSI_expected_after(rsi, sh, sh2))
          /\ RSI_averages(RSI_revised_then_inserted(rsi, source, sh, sh2))
                = RSI_averages(RSI_expected_after(rsi, sh, sh2))

\* the part that holds: when the revision leaves the close where it was first
\* seen, the change is taken against that close
C34_UnrevisedPart ==
    (/\ kind = "RSI"
     /\ source.dps # << >>
     /\ rsi.last_time = Some(OpenKey(source))
     /\ IsSome(rsi.last_close)) =>
       \A sh \in Shapes, sh2 \in Shapes :
          sh.close = Unwrap(rsi.last_close) =>
             RSI_averages(RSI_revised_then_opened(rsi, source, sh, sh2))
                = RSI_averages(RSI_expected_after(rsi, sh, sh2))


(***************************************************************************)
(* Updates to the past (C35)                                               *)
(***************************************************************************)
\* sources whose last key lies before last_time: the shorter prefixes of the
\* source, and for a time-keyed source any single candle at an earlier key
PastSources(last_time, src) ==
    { p \in { Prefix(src, i) : i \in 1..Len(src.dps) }
            \cup (IF src.basis = "TimeBased"
                  THEN { [src EXCEPT !.dps = << Kline(t, sh) >>] : t \in Keys, sh \in Shapes }
                  ELSE {}) :
        ReturnsEarly(last_time, p) }

\* C35: for SMA, Bollinger, RSI and Cumulative Delta, an on_insert_trades call
\* whose source's last key is smaller than the engine's last_time changes
\* neither the output series nor any accumulator field; nor does a call with an
\* empty source.
C35_PastUpdatesIgnored ==
    /\ kind = "SMA" =>
          /\ SMA_on_insert_trades(sma, Prefix(source, 0)) = sma
          /\ \A p \in PastSources(sma.last_time, source) : SMA_on_insert_trades(sma, p) = sma
    /\ kind = "Bollinger" =>
          /\ BB_on_insert_trades(bb, Prefix(source, 0)) = bb
          /\ \A p \in PastSources(bb.last_time, source) : BB_on_insert_trades(bb, p) = bb
    /\ kind = "RSI" =>
          /\ RSI_on_insert_trades(rsi, Prefix(source, 0)) = rsi
          /\ \A p \in PastSources(rsi.last_time, source) : RSI_on_insert_trades(rsi, p) = rsi
    /\ kind = "CumulativeDelta" =>
          /\ CD_on_insert_trades(cd, Prefix(source, 0)) = cd
          /\ \A p \in PastSources(cd.last_time, source) : CD_on_insert_trades(cd, p) = cd

\* C35 happens: an SMA engine with an output entry stands at the last key of a
\* source of four candles, so the first three prefixes end in its past, and a
\* call with the one-candle prefix returns it unchanged
C35_Witness ==
    /\ kind = "SMA"
    /\ Len(source.dps) = 4
    /\ sma.last_time = Some(OpenKey(source))
    /\ sma.data # EmptyMap
    /\ Cardinality(PastSources(sma.last_time, source)) >= 3
    /\ ReturnsEarly(sma.last_time, Prefix(source, 1))
    /\ source.dps[1].close # source.dps[4].close
    /\ SMA_on_insert_trades(sma, Prefix(source, 1)) = sma


(***************************************************************************)
(* The last processed key (C36)                                            *)
(***************************************************************************)
\* last_time a is not after last_time b (None before every key)
NotAfter(a, b) == a = None \/ (IsSome(b) /\ Unwrap(a) <= Unwrap(b))

\* one on_insert_klines or on_insert_trades call on SMA, Bollinger or RSI
MonotoneStep ==
    last_call'.op \in IngestionOps =>
       /\ kind = "SMA" => NotAfter(sma.last_time, sma'.last_time)
       /\ kind = "Bollinger" => NotAfter(bb.last_time, bb'.last_time)
       /\ kind = "RSI" => NotAfter(rsi.last_time, rsi'.last_time)

\* and on Cumulative Delta
CD_MonotoneStep ==
    (last_call'.op \in IngestionOps /\ kind = "CumulativeDelta") =>
       NotAfter(cd.last_time, cd'.last_time)

\* every call, of the four engines
AllMonotoneStep == MonotoneStep /\ CD_MonotoneStep

\* C36: for SMA, Bollinger, RSI and Cumulative Delta, between two rebuilds
\* last_time never decreases across on_insert_klines and on_insert_trades
\* calls, duplicate and out-of-order keys included.
C36_MonotoneLastTime == [][AllMonotoneStep]_vars

\* the part that holds: SMA, Bollinger and RSI
C36_ThreeEngines == [][MonotoneStep]_vars


(***************************************************************************)
(* C37  Cumulative Delta key agreement                                     *)
(***************************************************************************)
\* the candles that have a stored delta and those that have a cumulative value
DeltaKeys(s) == DOMAIN s.per_candle_delta
CumulativeKeys(s) == DOMAIN s.cumulative_data

\* C37: in every reachable state the key set of cumulative_data equals the key
\* set of per_candle_delta: every candle with a stored delta has a cumulative
\* value and vice versa.
C37_CDKeyAgreement ==
    kind = "CumulativeDelta" => CumulativeKeys(cd) = DeltaKeys(cd)

\* an ingestion call has left several candles stored, the last one added below
\* the newest key
C37_Witness ==
    /\ kind = "CumulativeDelta"
    /\ last_call.op \in IngestionOps
    /\ Cardinality(DeltaKeys(cd)) >= 2
    /\ IsSome(cd.last_time)
    /\ \E k \in DeltaKeys(cd) : k > Unwrap(cd.last_time)
    /\ CumulativeKeys(cd) = DeltaKeys(cd)


(***************************************************************************)
(* C38  RSI range                                                          *)
(***************************************************************************)
\* an average that is unset, or set and not negative
NonNegativeWhenSet(avg) == IsSome(avg) => Unwrap(avg) >= 0

InRSIRange(v) == Lit(0) <= v /\ v <= Lit(100)

\* every value of the output series, finalized or tentative, is within 0..100
RSI_SeriesInRange(s) == \A k \in DOMAIN s.data : InRSIRange(s.data[k])

\* C38: in every reachable state the finalized average gain and average loss are
\* non-negative whenever they are set, and every value stored in the RSI output
\* series (finalized or tentative) lies between 0 and 100 inclusive.
C38_RSIRange ==
    kind = "RSI" =>
        /\ NonNegativeWhenSet(rsi.finalized_avg_gain)
        /\ NonNegativeWhenSet(rsi.finalized_avg_loss)
        /\ RSI_SeriesInRange(rsi)

\* a tentative revision has stored a value strictly inside the range beside
\* another stored value, with both averages set and a loss seen
C38_Witness ==
    /\ kind = "RSI"
    /\ last_call.op = "trades"
    /\ IsSome(rsi.finalized_avg_gain)
    /\ IsSome(rsi.finalized_avg_loss)
    /\ Unwrap(rsi.finalized_avg_loss) > 0
    /\ Cardinality(DOMAIN rsi.data) >= 2
    /\ \E k \in DOMAIN rsi.data : Lit(0) < rsi.data[k] /\ rsi.data[k] < Lit(100)
    /\ \E k \in DOMAIN rsi.data : rsi.data[k] = Lit(0) \/ rsi.data[k] = Lit(100)

=============================================================================
